---- MODULE Spec2Model ----
(***************************************************************************)
(* Bulk job queue of the SEOgen worker (src/worker.py) over the Supabase   *)
(* REST store (src/app/supabase_client.py), with the API handlers of       *)
(* src/app/main.py that touch the same rows.                               *)
(*                                                                         *)
(* A worker task (_process_item_async) and an API handler take one step    *)
(* per request to the store: the store applies a PATCH or a POST or        *)
(* answers a GET at once, and between two requests of one process any      *)
(* other process may run.  The store answers a PATCH with 204 whenever it  *)
(* executed the request, whatever number of rows the filter matched        *)
(* (PostgREST with Prefer: return=minimal); the code reads nothing else of *)
(* the answer.  The error column of an item is not part of the state.      *)
(*                                                                         *)
(* Spec is the queue with its worker tasks and API handlers; SpecUncanceled*)
(* is the same with no cancel request.  SpecAck runs acknowledgement calls *)
(* on any item statuses, SpecGen the requests of generate_page_content     *)
(* (src/app/ai_generator.py) for several generations that run at once on   *)
(* the one landmark cache of the process, SpecResults a client that lists  *)
(* and acknowledges the results of one job while its items are processed.  *)
(*                                                                         *)
(* SpecGate steps through the lookups of check_can_generate while usage    *)
(* rows are written between them; SpecGateAtRest is the same call over a   *)
(* store that is not written to while the call is in progress.  Both have  *)
(* the request that resets the billing period of the subscription.         *)
(* SpecSlug applies slugify to strings typed character by                  *)
(* character; SpecPage builds the response of one request in each page     *)
(* mode from an LLM output and validates it, and may generate the same     *)
(* request again with another output; SpecHttp is POST /generate-page with *)
(* its license check, quota gate, generation and usage row.                *)
(*                                                                         *)
(* SpecFaults is the worker tasks and the cancel request with store        *)
(* requests that are not executed; SpecCrash runs one task at a time in a  *)
(* process that may stop after saving a result; SpecPool is the polling    *)
(* loop of one process (main_async) with its batch of tasks and the        *)
(* thread pool that runs their generations.  SpecProgress is the worker    *)
(* tasks alone under fair scheduling; SpecUsage is tasks on distinct rows  *)
(* with the quota check answered from the usage rows of the store.         *)
(***************************************************************************)
EXTENDS Integers, Sequences, FiniteSets, TLC

\* ------------------------------------------------------------- bounds
NumWorkers == 2
NumHandlers == 1
MaxInFlight == 2
NumItems == 3
NumJobs == 2
MaxAckIds == 2
MaxRows == 2
NumGens == 2

\* ------------------------------------------------------------- program constants
MAX_ATTEMPTS == 3
BATCH_LIMIT == 5
RETRY_BELOW == 2
CHUNK_SIZE == 100
HTTP_NO_CONTENT == 204
HTTP_ERROR == 500

Workers == 1..NumWorkers
\* The API handlers that may be serving a request at one time; they share the
\* store with the worker tasks and run recompute_bulk_job_counters as they do.
Handlers == (NumWorkers + 1)..(NumWorkers + NumHandlers)
Procs == Workers \cup Handlers
\* The generations in progress at one time: the worker runs them on the threads
\* of its pool, all on the one local_data_fetcher of the process.
Gens == 1..NumGens
ItemIds == 1..NumItems
JobIds == 1..NumJobs
UnknownId == 0

\* Items are dealt round-robin to the jobs, job 1 first: item i is row idx IdxOf(i)
\* of job JobOf(i).
JobOf(i) == ((i - 1) % NumJobs) + 1
IdxOf(i) == (i - 1) \div NumJobs
ItemsOf(j) == {i \in ItemIds : JobOf(i) = j}
TotalItems(j) == Cardinality(ItemsOf(j))

NoResult == 0
NoError == "none"
NoJob == 0
NoCursor == -1

VARIABLES
  itemStatus,    \* bulk_job_items.status
  itemAttempts,  \* bulk_job_items.attempts
  itemResult,    \* bulk_job_items.result_json: NoResult (null) or the worker that produced it
  jobStatus,     \* bulk_jobs.status
  jobCounters,   \* bulk_jobs.processed / completed / failed
  pc,            \* position of each worker task and API handler in its code
  cur,           \* item a worker task was started with
  att,           \* the attempts value of the listed row (worker.py:57)
  canceledInFlight, \* history: the task's job became canceled while it was generating
  rcJob,         \* job_id of the API request, of recompute_bulk_job_counters
  rcCount,       \* recompute_bulk_job_counters: completed / failed of the scan
  rcNewStatus,   \* recompute_bulk_job_counters: new_status ("none" for None)
  ackLog,        \* history: the last acknowledgement call and the statuses it found
  ackChunks,     \* mark_bulk_items_imported: the chunks of ids not yet sent
  gen,           \* generate_page_content: per generation, the request and its call counts
  cache,         \* LocalDataFetcher._cache: the cities whose landmarks are cached
  consumer,      \* the client that lists a job's results and acknowledges them
  usageLogs,     \* usage_logs: per API key, the success rows and those of the period
  usageItems,    \* usage_logs: per bulk item, the bulk_item_generation_success rows
  subscription,  \* subscriptions: the limits of the subscription of the calling key
  gate,          \* check_can_generate: the last call, its lookups and its answer
  quotaCheck,    \* check_can_generate called by a worker task: the call in progress
  slugCall,      \* slugify: the arguments and the outputs of two calls
  page,          \* a page request, the LLM JSON, the response built and its violations
  http,          \* POST /generate-page: the request in progress and its response
  pool           \* main_async: the loop's position and the tasks of the current batch

queueVars == <<itemStatus, itemAttempts, itemResult, jobStatus, jobCounters>>
procVars == <<pc, cur, att, canceledInFlight, rcJob, rcCount, rcNewStatus>>
apiVars == <<ackLog, ackChunks, gen, cache, consumer>>
gateVars == <<usageLogs, usageItems, subscription, gate, quotaCheck>>
callVars == <<gateVars, slugCall, page, http, pool>>
otherVars == <<apiVars, callVars>>
vars == <<itemStatus, itemAttempts, itemResult, jobStatus, jobCounters,
          pc, cur, att, canceledInFlight, rcJob, rcCount, rcNewStatus,
          ackLog, ackChunks, gen, cache, consumer, usageLogs, usageItems, subscription, gate, quotaCheck,
          slugCall, page,
          http,
          pool>>

ZeroCount == [completed |-> 0, failed |-> 0]

\* Job 1 is being worked: its row idx 0 (item 1) is still pending with attempts 0
\* and its other rows were generated at the first attempt and wait for their
\* acknowledgement.  The other jobs are older ones, complete and acknowledged.
FirstItem == 1
InitStatus(i) ==
  IF i = FirstItem THEN "pending" ELSE IF JobOf(i) = 1 THEN "completed" ELSE "imported"
InitDone(j) == Cardinality({i \in ItemsOf(j) : i # FirstItem})

IdleProcs ==
  /\ pc = [p \in Procs |-> "idle"]
  /\ cur = [p \in Procs |-> 0]
  /\ att = [p \in Procs |-> 0]
  /\ canceledInFlight = [p \in Procs |-> FALSE]
  /\ rcJob = [p \in Procs |-> NoJob]
  /\ rcCount = [p \in Procs |-> ZeroCount]
  /\ rcNewStatus = [p \in Procs |-> "none"]

\* No acknowledgement logged, no generation request, an empty landmark cache, a
\* client that has not listed anything yet.
NoAck == [job |-> NoJob, ids |-> <<>>, before |-> <<>>, calls |-> 0, imported_count |-> 0]
GenIdle ==
  [pc |-> "idle", page_mode |-> "none", city |-> 0, in_event_loop |-> FALSE,
   llm_calls |-> 0, json_calls |-> 0, landmark_calls |-> 0, repairs |-> 0,
   outcome |-> "none", validated |-> "none", generation |-> "none"]
ConsumerStart ==
  [pc |-> "poll", cursor |-> NoCursor, sent |-> NoCursor, limit |-> 0, page |-> <<>>,
   seen |-> {}]

\* ------------------------------------------------------------- license gate: bounds
NumKeys == 3
MaxUsage == 2
MaxQuota == 2
MaxResets == 1

DEFAULT_LIMIT == 500
Keys == 1..NumKeys
\* The last key belongs to another subscription than the calling keys.
SubscriptionOf(k) == IF k < NumKeys THEN 1 ELSE 2
KeysOf(s) == {k \in Keys : SubscriptionOf(k) = s}
\* The success rows of a key: all of them, those created in the current period
\* of the subscription, and those created in each period before it.
NoUsage == [k \in Keys |-> [total |-> 0, period |-> 0, earlier |-> <<>>]]
NoItemUsage == [i \in ItemIds |-> 0]
NoKey == 0
NoGate ==
  [pc |-> "idle", calls |-> 0, key |-> NoKey, ids |-> {}, lookup_failed |-> FALSE,
   all_ok |-> FALSE, allowed |-> FALSE, total_pages |-> 0, period_pages |-> 0,
   period_start |-> 0]

NoOutput == <<"none">>
NoSlug == [service |-> <<>>, city |-> <<>>, calls |-> 0, first |-> NoOutput, second |-> NoOutput]

InitGateIdle ==
  /\ usageLogs = NoUsage
  /\ usageItems = NoItemUsage
  /\ subscription = [page_limit |-> DEFAULT_LIMIT, monthly_generation_limit |-> DEFAULT_LIMIT,
                     current_period_start |-> 0]
  /\ gate = NoGate
  /\ quotaCheck = [w \in Workers |-> NoGate]

NoData == [page_mode |-> "none"]
NoJson == [none |-> TRUE]
NoResponse == [title |-> <<>>, meta_description |-> <<>>, slug |-> <<>>, blocks |-> <<>>]
NoFields == [slug |-> <<>>, title |-> <<>>, h1 |-> {}]
NoPage ==
  [pc |-> "idle", data |-> NoData, content_json |-> NoJson, response |-> NoResponse,
   first |-> NoFields, errors |-> <<>>]

NoStatus == 0
NoHttp ==
  [pc |-> "idle", requests |-> 0, license |-> "none", preview |-> FALSE,
   allowed |-> "none", outcome |-> "none", llm_calls |-> 0, rows |-> NoUsage,
   status_code |-> NoStatus, detail |-> "none", responses |-> 0]

\* worker.py:15-17
CONCURRENT_WORKERS == 3
Tasks == 1..BATCH_LIMIT
NoPool == [pc |-> "poll", task |-> [t \in Tasks |-> "none"]]

InitCalls ==
  /\ InitGateIdle
  /\ slugCall = NoSlug
  /\ page = NoPage
  /\ http = NoHttp
  /\ pool = NoPool

InitApi ==
  /\ ackLog = NoAck
  /\ ackChunks = [h \in Handlers |-> <<>>]
  /\ gen = [g \in Gens |-> GenIdle]
  /\ cache = {}
  /\ consumer = ConsumerStart

InitOther == InitApi /\ InitCalls

InitQueue ==
  /\ itemStatus = [i \in ItemIds |-> InitStatus(i)]
  /\ itemAttempts = [i \in ItemIds |-> IF i = FirstItem THEN 0 ELSE 1]
  /\ itemResult = [i \in ItemIds |-> IF i = FirstItem THEN NoResult ELSE 1]
  /\ jobStatus = [j \in JobIds |-> IF j = 1 THEN "running" ELSE "complete"]
  /\ jobCounters = [j \in JobIds |->
       [processed |-> InitDone(j), completed |-> InitDone(j), failed |-> 0]]

Init ==
  /\ InitQueue
  /\ IdleProcs
  /\ InitOther

\* ------------------------------------------------------------- store operations

\* list_pending_bulk_items: rows with status in (pending, running), ordered by
\* created_at, idx, cut at limit.  Jobs are created in the order of their ids.
RowBefore(a, b) == JobOf(a) < JobOf(b) \/ (JobOf(a) = JobOf(b) /\ IdxOf(a) < IdxOf(b))
RankIn(S, i) == Cardinality({k \in S : RowBefore(k, i)})
list_pending_bulk_items(limit) ==
  LET S == {i \in ItemIds : itemStatus[i] \in {"pending", "running"}}
  IN {i \in S : RankIn(S, i) < limit}

\* Status code of the store's answer to a PATCH: 204 when the request was executed,
\* an error status when it was not.
PatchStatusCode(executed) == IF executed THEN HTTP_NO_CONTENT ELSE HTTP_ERROR

\* try_claim_bulk_item: rows matched by id=eq.item_id & status=eq.pending
ClaimMatches(i) == IF itemStatus[i] = "pending" THEN 1 ELSE 0

\* try_claim_bulk_item: return resp.status_code == 204
try_claim_result(code) == code = HTTP_NO_CONTENT

\* update_bulk_item_result: PATCH by id; result_json and error are in the payload
\* only when not None.
update_bulk_item_result(i, status, result, error) ==
  /\ itemStatus' = [itemStatus EXCEPT ![i] = status]
  /\ itemResult' = IF result # NoResult THEN [itemResult EXCEPT ![i] = result] ELSE itemResult
  /\ UNCHANGED itemAttempts

Goto(w, label) == pc' = [pc EXCEPT ![w] = label]

\* A worker task returns: its locals are dropped.
Return(w) ==
  /\ pc' = [pc EXCEPT ![w] = "idle"]
  /\ cur' = [cur EXCEPT ![w] = 0]
  /\ att' = [att EXCEPT ![w] = 0]
  /\ canceledInFlight' = [canceledInFlight EXCEPT ![w] = FALSE]

\* ------------------------------------------------------------- worker: _process_item_async

\* The worker tasks and API handlers that are inside their code.  At most
\* MaxInFlight of them are at one time: a task is created, a request is taken,
\* while there is room for one more.
Busy == {p \in Procs : pc[p] # "idle"}
HasRoom == Cardinality(Busy) < MaxInFlight

\* main_async: a task is created for a row of the polled list; the task keeps the
\* row as listed.
StartTask(w, i) ==
  /\ pc[w] = "idle"
  /\ HasRoom
  /\ i \in list_pending_bulk_items(BATCH_LIMIT)
  /\ pc' = [pc EXCEPT ![w] = "start"]
  /\ cur' = [cur EXCEPT ![w] = i]
  /\ att' = [att EXCEPT ![w] = itemAttempts[i]]
  /\ UNCHANGED <<queueVars, canceledInFlight, rcJob, rcCount, rcNewStatus, otherVars>>

\* worker.py:59-66
MaxAttemptsExceeded(w) ==
  /\ pc[w] = "start"
  /\ att[w] >= MAX_ATTEMPTS
  /\ update_bulk_item_result(cur[w], "failed", NoResult, "max_attempts")
  /\ Return(w)
  /\ UNCHANGED <<jobStatus, jobCounters, rcJob, rcCount, rcNewStatus, otherVars>>

\* worker.py:68 with supabase_client.py:379-390, the request executed by the store
TryClaim(w) ==
  /\ pc[w] = "start"
  /\ att[w] < MAX_ATTEMPTS
  /\ try_claim_result(PatchStatusCode(TRUE))
  /\ LET i == cur[w] IN
       IF ClaimMatches(i) = 1
         THEN /\ itemStatus' = [itemStatus EXCEPT ![i] = "running"]
              /\ itemAttempts' = [itemAttempts EXCEPT ![i] = att[w] + 1]
         ELSE UNCHANGED <<itemStatus, itemAttempts>>
  /\ Goto(w, "get_job")
  /\ UNCHANGED <<itemResult, jobStatus, jobCounters, cur, att, canceledInFlight, rcJob, rcCount, rcNewStatus, otherVars>>

\* worker.py:68, the request failed (error status or exception): try_claim_bulk_item
\* returns False
TryClaimFails(w) ==
  /\ pc[w] = "start"
  /\ att[w] < MAX_ATTEMPTS
  /\ ~try_claim_result(PatchStatusCode(FALSE))
  /\ Goto(w, "not_claimed")
  /\ UNCHANGED <<queueVars, cur, att, canceledInFlight, rcJob, rcCount, rcNewStatus, otherVars>>

\* Faulty variant of SkipUnclaimed: the lost claim is handled as a failure of the
\* item.
SkipUnclaimedAsFailure(w) ==
  /\ pc[w] = "not_claimed"
  /\ update_bulk_item_result(cur[w], "failed", NoResult, "not_claimed")
  /\ Return(w)
  /\ UNCHANGED <<jobStatus, jobCounters, rcJob, rcCount, rcNewStatus, otherVars>>

\* worker.py:69-71: not claimed, the task logs the skip and returns
SkipUnclaimed(w) ==
  /\ pc[w] = "not_claimed"
  /\ Return(w)
  /\ UNCHANGED <<queueVars, rcJob, rcCount, rcNewStatus, otherVars>>

\* Faulty variant of GetJob: the job's status is not looked at.
GetJobAnyStatus(w) ==
  /\ pc[w] = "get_job"
  /\ Goto(w, "get_license")
  /\ UNCHANGED <<queueVars, cur, att, canceledInFlight, rcJob, rcCount, rcNewStatus, otherVars>>

\* worker.py:73-80: get_bulk_job, then the decision on its status
GetJob(w) ==
  /\ pc[w] = "get_job"
  /\ IF jobStatus[JobOf(cur[w])] \in {"canceled", "failed"}
       THEN Goto(w, "fail_job_status")
       ELSE Goto(w, "get_license")
  /\ UNCHANGED <<queueVars, cur, att, canceledInFlight, rcJob, rcCount, rcNewStatus, otherVars>>

\* worker.py:73-74: get_bulk_job returns None (no row, error status or exception)
GetJobFails(w) ==
  /\ pc[w] = "get_job"
  /\ Goto(w, "fail_job_not_found")
  /\ UNCHANGED <<queueVars, cur, att, canceledInFlight, rcJob, rcCount, rcNewStatus, otherVars>>

\* worker.py:75-76
FailJobNotFound(w) ==
  /\ pc[w] = "fail_job_not_found"
  /\ update_bulk_item_result(cur[w], "failed", NoResult, "job_not_found")
  /\ Return(w)
  /\ UNCHANGED <<jobStatus, jobCounters, rcJob, rcCount, rcNewStatus, otherVars>>

\* worker.py:79-80
FailJobStatus(w) ==
  /\ pc[w] = "fail_job_status"
  /\ update_bulk_item_result(cur[w], "failed", NoResult, "job_status")
  /\ Return(w)
  /\ UNCHANGED <<jobStatus, jobCounters, rcJob, rcCount, rcNewStatus, otherVars>>

\* Faulty variant of GetLicense: an active license leads straight to the
\* generation, the quota check is skipped.
GetLicenseOnly(w, active) ==
  /\ pc[w] = "get_license"
  /\ IF active THEN Goto(w, "generate") ELSE Goto(w, "fail_license")
  /\ UNCHANGED <<queueVars, cur, att, canceledInFlight, rcJob, rcCount, rcNewStatus, otherVars>>

\* worker.py:82-84: get_license_by_key; the api_keys table is not written by the
\* queue, its answer is an input.
GetLicense(w, active) ==
  /\ pc[w] = "get_license"
  /\ IF active THEN Goto(w, "check_quota") ELSE Goto(w, "fail_license")
  /\ UNCHANGED <<queueVars, cur, att, canceledInFlight, rcJob, rcCount, rcNewStatus, otherVars>>

\* Entry of recompute_bulk_job_counters(job_id) in task w; the task does not use
\* its item row after this point.
CallRecompute(w, j) ==
  /\ pc' = [pc EXCEPT ![w] = "rc_scan"]
  /\ rcJob' = [rcJob EXCEPT ![w] = j]
  /\ cur' = [cur EXCEPT ![w] = 0]
  /\ att' = [att EXCEPT ![w] = 0]
  /\ canceledInFlight' = [canceledInFlight EXCEPT ![w] = FALSE]

\* worker.py:85-87
FailLicense(w) ==
  /\ pc[w] = "fail_license"
  /\ update_bulk_item_result(cur[w], "failed", NoResult, "license")
  /\ CallRecompute(w, JobOf(cur[w]))
  /\ UNCHANGED <<jobStatus, jobCounters, rcCount, rcNewStatus, otherVars>>

\* worker.py:92-93: check_can_generate; its answer is an input.
CheckCanGenerate(w, allowed) ==
  /\ pc[w] = "check_quota"
  /\ IF allowed THEN Goto(w, "generate") ELSE Goto(w, "fail_quota")
  /\ UNCHANGED <<queueVars, cur, att, canceledInFlight, rcJob, rcCount, rcNewStatus, otherVars>>

\* worker.py:95-97
FailQuota(w) ==
  /\ pc[w] = "fail_quota"
  /\ update_bulk_item_result(cur[w], "failed", NoResult, "quota")
  /\ CallRecompute(w, JobOf(cur[w]))
  /\ UNCHANGED <<jobStatus, jobCounters, rcCount, rcNewStatus, otherVars>>

\* worker.py:130: generate_page_content returns a response or raises.
Generate(w, ok) ==
  /\ pc[w] = "generate"
  /\ IF ok THEN Goto(w, "save_result") ELSE Goto(w, "handle_error")
  /\ UNCHANGED <<queueVars, cur, att, canceledInFlight, rcJob, rcCount, rcNewStatus, otherVars>>

\* worker.py:133-138
SaveResult(w) ==
  /\ pc[w] = "save_result"
  /\ update_bulk_item_result(cur[w], "running", w, NoError)
  /\ Goto(w, "log_usage")
  /\ UNCHANGED <<jobStatus, jobCounters, cur, att, canceledInFlight, rcJob, rcCount, rcNewStatus, otherVars>>

\* worker.py:134-138 when the store does not execute the PATCH:
\* update_bulk_item_result returns False (supabase_client.py:406-408) and the
\* task, which does not read the return value, goes on.
SaveResultFails(w) ==
  /\ pc[w] = "save_result"
  /\ Goto(w, "log_usage")
  /\ UNCHANGED <<queueVars, cur, att, canceledInFlight, rcJob, rcCount, rcNewStatus, otherVars>>

\* The api_keys row of the license a job was created with (worker.py:82-89).
JobKey(j) == j

\* worker.py:142-159 with supabase_client.py:182-217: the POST of the row with
\* action bulk_item_generation_success and the item's id in its details; the
\* store takes it (201) or not, and the task goes on either way.
LogUsage(w, logged) ==
  /\ pc[w] = "log_usage"
  /\ usageLogs' = IF logged
                    THEN [usageLogs EXCEPT ![JobKey(JobOf(cur[w]))] =
                            [@ EXCEPT !.total = @ + 1, !.period = @ + 1]]
                    ELSE usageLogs
  /\ usageItems' = IF logged THEN [usageItems EXCEPT ![cur[w]] = @ + 1] ELSE usageItems
  /\ Goto(w, "mark_completed")
  /\ UNCHANGED <<queueVars, cur, att, canceledInFlight, rcJob, rcCount, rcNewStatus,
                 apiVars, subscription, gate, quotaCheck, slugCall, page, http, pool>>

\* The answers of the store to the usage POSTs of a run: at most MaxRows of the
\* rows of one item are answered 201.
RowsBelowBound(w, logged) == logged => usageItems[cur[w]] < MaxRows

\* worker.py:162-165, then line 200
MarkCompleted(w) ==
  /\ pc[w] = "mark_completed"
  /\ update_bulk_item_result(cur[w], "completed", NoResult, NoError)
  /\ CallRecompute(w, JobOf(cur[w]))
  /\ UNCHANGED <<jobStatus, jobCounters, rcCount, rcNewStatus, otherVars>>

\* Faulty variant of RetryAllowed: a failed generation is always retried.
RetryAlways(attempts) == TRUE

\* worker.py:170: the retry decision, on the attempts value of the listed row
RetryAllowed(attempts) == attempts < RETRY_BELOW

\* worker.py:167-183, then line 200 (the log_usage call of lines 185-196 raises a
\* NameError that line 197 swallows)
HandleError(w) ==
  /\ pc[w] = "handle_error"
  /\ IF RetryAllowed(att[w])
       THEN update_bulk_item_result(cur[w], "pending", NoResult, "retry")
       ELSE update_bulk_item_result(cur[w], "failed", NoResult, "gen_error")
  /\ CallRecompute(w, JobOf(cur[w]))
  /\ UNCHANGED <<jobStatus, jobCounters, rcCount, rcNewStatus, otherVars>>

\* ------------------------------------------------------------- recompute_bulk_job_counters

\* supabase_client.py:424-434: the counting loop over the scanned status rows
ScanCounts(st, j) ==
  [completed |-> Cardinality({i \in ItemsOf(j) : st[i] \in {"completed", "imported"}}),
   failed |-> Cardinality({i \in ItemsOf(j) : st[i] = "failed"})]

\* supabase_client.py:440-445
NewStatus(current_status, total_items, completed, failed) ==
  IF current_status \notin {"canceled", "failed"}
    THEN IF total_items > 0 /\ (completed + failed) >= total_items
           THEN "complete"
           ELSE "running"
    ELSE "none"

\* supabase_client.py:447: processed counts the same rows as completed and failed
CounterPayload(count) ==
  [processed |-> count.completed + count.failed,
   completed |-> count.completed,
   failed |-> count.failed]

\* supabase_client.py:448-449: status is in the payload only when new_status is set
PatchedStatus(js, j, new_status) ==
  IF new_status # "none" THEN [js EXCEPT ![j] = new_status] ELSE js

\* supabase_client.py:412-423: GET of the job's item statuses
RecomputeScan(w) ==
  /\ pc[w] = "rc_scan"
  /\ rcCount' = [rcCount EXCEPT ![w] = ScanCounts(itemStatus, rcJob[w])]
  /\ Goto(w, "rc_job")
  /\ UNCHANGED <<queueVars, cur, att, canceledInFlight, rcJob, rcNewStatus, otherVars>>

\* supabase_client.py:436-445: get_bulk_job and the choice of new_status
RecomputeGetJob(w) ==
  /\ pc[w] = "rc_job"
  /\ rcNewStatus' = [rcNewStatus EXCEPT ![w] =
       NewStatus(jobStatus[rcJob[w]], TotalItems(rcJob[w]),
                 rcCount[w].completed, rcCount[w].failed)]
  /\ Goto(w, "rc_patch")
  /\ UNCHANGED <<queueVars, cur, att, canceledInFlight, rcJob, rcCount, otherVars>>

\* supabase_client.py:447-457: PATCH of the job row; the task returns after it
\* (worker.py:87, 97, 200).
RecomputePatch(w) ==
  /\ pc[w] = "rc_patch"
  /\ jobCounters' = [jobCounters EXCEPT ![rcJob[w]] = CounterPayload(rcCount[w])]
  /\ jobStatus' = PatchedStatus(jobStatus, rcJob[w], rcNewStatus[w])
  /\ Goto(w, "idle")
  /\ rcJob' = [rcJob EXCEPT ![w] = NoJob]
  /\ rcCount' = [rcCount EXCEPT ![w] = ZeroCount]
  /\ rcNewStatus' = [rcNewStatus EXCEPT ![w] = "none"]
  /\ UNCHANGED <<itemStatus, itemAttempts, itemResult, cur, att, canceledInFlight, otherVars>>

\* ------------------------------------------------------------- API handlers (main.py)

Range(s) == {s[k] : k \in 1..Len(s)}

\* supabase_client.py:10-14
RECURSIVE _chunk_list(_, _)
_chunk_list(values, chunk_size) ==
  IF Len(values) = 0 THEN <<>>
  ELSE IF Len(values) <= chunk_size THEN <<values>>
  ELSE <<SubSeq(values, 1, chunk_size)>>
         \o _chunk_list(SubSeq(values, chunk_size + 1, Len(values)), chunk_size)

\* Faulty variant of MarkChunk: the filter status=eq.completed is missing.
MarkChunkAnyStatus(st, j, chunk) ==
  [i \in ItemIds |->
     IF JobOf(i) = j /\ i \in Range(chunk) THEN "imported" ELSE st[i]]

\* Faulty variant of MarkChunk: the filter job_id=eq.j is missing.
MarkChunkAnyJob(st, j, chunk) ==
  [i \in ItemIds |->
     IF i \in Range(chunk) /\ st[i] = "completed" THEN "imported" ELSE st[i]]

\* supabase_client.py:349-355: PATCH status=imported where job_id=eq.j, id in chunk,
\* status=eq.completed
MarkChunk(st, j, chunk) ==
  [i \in ItemIds |->
     IF JobOf(i) = j /\ i \in Range(chunk) /\ st[i] = "completed"
       THEN "imported"
       ELSE st[i]]

RECURSIVE MarkChunks(_, _, _)
MarkChunks(st, j, chunks) ==
  IF Len(chunks) = 0 THEN st
  ELSE MarkChunks(MarkChunk(st, j, Head(chunks)), j, Tail(chunks))

\* supabase_client.py:340-361: the item statuses after the call
mark_bulk_items_imported(st, j, item_ids) ==
  IF Len(item_ids) = 0 THEN st
  ELSE MarkChunks(st, j, _chunk_list(item_ids, CHUNK_SIZE))

\* Lists of item ids a client may send: known ids and an unknown one, repeats allowed.
AckLists == UNION {[1..n -> ItemIds \cup {UnknownId}] : n \in 0..MaxAckIds}

\* A list that mark_bulk_items_imported sends as two chunks: item 1, CHUNK_SIZE
\* unknown ids, and the last item.
LongAckList == <<1>> \o [k \in 1..CHUNK_SIZE |-> UnknownId] \o <<NumItems>>
AckRequests == AckLists \cup {LongAckList}

\* The lists without repeats, in ascending order (one list per set of ids).
AckInputs == {ids \in AckLists : \A k \in 1..(Len(ids) - 1) : ids[k] < ids[k + 1]}

\* An API handler first looks up the license (GET api_keys) and the job (GET
\* bulk_jobs) and answers 403 or 404 from them; both reads are of columns that no
\* request writes, and every job here belongs to the license of its caller.  They
\* are the step in which the handler takes its request.  After that each request
\* to the store is a step of the handler, and any other process may run between
\* two of them.

\* main.py:314-322 with supabase_client.py:340-345: POST /bulk-jobs/{id}/ack is
\* taken by handler h; mark_bulk_items_imported cuts the ids into chunks and sends
\* no request for an empty list.
ack_bulk_job_results(h, j, ids) ==
  /\ pc[h] = "idle"
  /\ HasRoom
  /\ rcJob' = [rcJob EXCEPT ![h] = j]
  /\ ackChunks' = [ackChunks EXCEPT ![h] =
       IF Len(ids) = 0 THEN <<>> ELSE _chunk_list(ids, CHUNK_SIZE)]
  /\ IF Len(ids) = 0 THEN Goto(h, "rc_scan") ELSE Goto(h, "ack_mark")
  /\ UNCHANGED <<queueVars, cur, att, canceledInFlight, rcCount, rcNewStatus>>

AckBulkJobResults(h, j, ids) ==
  /\ ack_bulk_job_results(h, j, ids)
  /\ UNCHANGED <<ackLog, gen, cache, consumer, callVars>>

\* supabase_client.py:345-357: the PATCH of the next chunk, answered 204; after
\* the last one the handler calls recompute_bulk_job_counters (main.py:323).
mark_next_chunk(h) ==
  /\ pc[h] = "ack_mark"
  /\ itemStatus' = MarkChunk(itemStatus, rcJob[h], Head(ackChunks[h]))
  /\ ackChunks' = [ackChunks EXCEPT ![h] = Tail(@)]
  /\ IF Len(ackChunks[h]) = 1 THEN Goto(h, "rc_scan") ELSE Goto(h, "ack_mark")
  /\ UNCHANGED <<itemAttempts, itemResult, jobStatus, jobCounters,
                 cur, att, canceledInFlight, rcJob, rcCount, rcNewStatus>>

AckMarkChunk(h) ==
  /\ mark_next_chunk(h)
  /\ UNCHANGED <<ackLog, gen, cache, consumer, callVars>>

\* main.py:258-267: GET /bulk-jobs/{id} is taken by handler h, which calls
\* recompute_bulk_job_counters.
GetBulkJobStatus(h, j) ==
  /\ pc[h] = "idle"
  /\ HasRoom
  /\ rcJob' = [rcJob EXCEPT ![h] = j]
  /\ Goto(h, "rc_scan")
  /\ UNCHANGED <<queueVars, cur, att, canceledInFlight, rcCount, rcNewStatus, otherVars>>

\* The requests of recompute_bulk_job_counters in handler h; its PATCH is the
\* last request of the handler, which then answers.
HandlerRecompute(h) ==
  \/ RecomputeScan(h)
  \/ RecomputeGetJob(h)
  \/ RecomputePatch(h)

HandlerStep(h) ==
  \/ AckMarkChunk(h)
  \/ HandlerRecompute(h)

\* main.py:327-338 with supabase_client.py:279-290: POST /bulk-jobs/{id}/cancel,
\* whose one request to the store after the lookups is the PATCH status=canceled
\* by id.
CancelBulkJob(j) ==
  /\ jobStatus' = [jobStatus EXCEPT ![j] = "canceled"]
  /\ canceledInFlight' = [w \in Procs |->
       \/ canceledInFlight[w]
       \/ (pc[w] = "generate" /\ JobOf(cur[w]) = j /\ jobStatus[j] # "canceled")]
  /\ UNCHANGED <<itemStatus, itemAttempts, itemResult, jobCounters,
                 pc, cur, att, rcJob, rcCount, rcNewStatus, otherVars>>

\* ------------------------------------------------------------- results listing

ResultStatuses == {"completed", "failed"}

\* order=idx.asc: the rows of a set of items as a list
RECURSIVE OrderByIdx(_)
OrderByIdx(S) ==
  IF S = {} THEN <<>>
  ELSE LET first == CHOOSE i \in S : \A k \in S : IdxOf(i) <= IdxOf(k)
       IN <<first>> \o OrderByIdx(S \ {first})

\* limit=n
FirstRows(rows, n) == IF Len(rows) <= n THEN rows ELSE SubSeq(rows, 1, n)

\* supabase_client.py:299-313: the rows above the cursor (all rows without a cursor)
items_after(st, j, cursor_idx, limit) ==
  FirstRows(OrderByIdx({i \in ItemsOf(j) :
              /\ st[i] \in ResultStatuses
              /\ (cursor_idx = NoCursor \/ IdxOf(i) > cursor_idx)}),
            limit)

\* Faulty variant of items_before: the listing never looks below the cursor.
items_before_never(st, j, cursor_idx, limit, got) == <<>>

\* supabase_client.py:315-329: the rows below the cursor, asked for only with a
\* cursor and a batch that is not full
items_before(st, j, cursor_idx, limit, got) ==
  IF cursor_idx # NoCursor /\ got < limit
    THEN FirstRows(OrderByIdx({i \in ItemsOf(j) :
                     st[i] \in ResultStatuses /\ IdxOf(i) < cursor_idx}),
                   limit - got)
    ELSE <<>>

\* supabase_client.py:331-334: the two answers combined, sorted by idx, cut at
\* limit
sorted_page(before, after, limit) == FirstRows(OrderByIdx(Range(before \o after)), limit)

\* main.py:293: the cursor of the request is used when it is a string of digits
ParseCursor(cursor) == IF cursor # NoCursor /\ cursor >= 0 THEN cursor ELSE NoCursor

\* main.py:296-311: next_cursor is the idx of the last row, null for no rows
next_cursor(rows) == IF Len(rows) = 0 THEN NoCursor ELSE IdxOf(rows[Len(rows)])

\* ------------------------------------------------------------- the client of one job

MaxLimit == 2
Limits == 1..MaxLimit
ConsumerJob == 1

HandlersIdle == \A h \in Handlers : pc[h] = "idle"

\* main.py:296-311: the response of the listing as the client takes it.  The
\* client takes the next_cursor of the answer; when that is null it either keeps
\* the cursor it had or starts over without one.  seen is the history of the rows
\* it ever received.
Received(c, rows, keep) ==
  LET nc == next_cursor(rows)
  IN [c EXCEPT !.pc = "ack",
               !.page = rows,
               !.seen = @ \cup Range(rows),
               !.cursor = IF nc # NoCursor THEN nc
                          ELSE IF keep THEN c.sent ELSE NoCursor]

\* A second GET is sent only with a cursor and a batch that is not full
\* (supabase_client.py:318).
AsksBefore(cursor_idx, limit, got) == cursor_idx # NoCursor /\ got < limit

\* GET /bulk-jobs/{id}/results with the client's cursor, sent when the answer to
\* its last request has arrived: the first GET of get_bulk_job_results
\* (supabase_client.py:299-313), and the response when no second GET follows.
\* sent and limit are the parameters of the request.
PollResults(limit, keep) ==
  /\ consumer.pc = "poll"
  /\ HandlersIdle
  /\ LET cursor_idx == ParseCursor(consumer.cursor)
         after == items_after(itemStatus, ConsumerJob, cursor_idx, limit)
         asked == [consumer EXCEPT !.sent = consumer.cursor, !.limit = limit]
     IN consumer' = IF AsksBefore(cursor_idx, limit, Len(after))
                      THEN [asked EXCEPT !.pc = "list_before", !.page = after]
                      ELSE Received(asked, sorted_page(<<>>, after, limit), keep)
  /\ UNCHANGED <<queueVars, procVars, ackLog, ackChunks, gen, cache, callVars>>

\* supabase_client.py:315-334: the second GET of get_bulk_job_results, for the
\* rows below the cursor, and the response.
ListBefore(keep) ==
  /\ consumer.pc = "list_before"
  /\ LET before == items_before(itemStatus, ConsumerJob, ParseCursor(consumer.sent),
                                consumer.limit, Len(consumer.page))
     IN consumer' = Received(consumer, sorted_page(before, consumer.page, consumer.limit), keep)
  /\ UNCHANGED <<queueVars, procVars, ackLog, ackChunks, gen, cache, callVars>>

\* POST /bulk-jobs/{id}/ack with the ids of the rows just received, taken by
\* handler h.
AckResults(h) ==
  /\ consumer.pc = "ack"
  /\ ack_bulk_job_results(h, ConsumerJob, consumer.page)
  /\ consumer' = [consumer EXCEPT !.pc = "poll"]
  /\ UNCHANGED <<ackLog, gen, cache, callVars>>

\* The client's requests and the steps of the handlers that serve them.
ConsumerStep ==
  \/ \E limit \in Limits : \E keep \in BOOLEAN : PollResults(limit, keep)
  \/ \E keep \in BOOLEAN : ListBefore(keep)
  \/ \E h \in Handlers : AckResults(h)
  \/ \E h \in Handlers : HandlerStep(h)

\* ------------------------------------------------------------- acknowledgement calls

Statuses == {"pending", "running", "completed", "failed", "imported"}

\* POST /bulk-jobs/{id}/ack with any list of ids; the call and the statuses it
\* found are logged.
AckCall(h, j, ids) ==
  /\ ackLog.calls = 0
  /\ ack_bulk_job_results(h, j, ids)
  /\ ackLog' = [job |-> j, ids |-> ids, before |-> itemStatus, calls |-> 1,
                imported_count |-> 0]
  /\ UNCHANGED <<gen, cache, consumer, callVars>>

\* The same request sent once more, after the answer to the first.
AckAgain(h) ==
  /\ ackLog.calls = 1
  /\ HandlersIdle
  /\ ack_bulk_job_results(h, ackLog.job, ackLog.ids)
  /\ ackLog' = [ackLog EXCEPT !.before = itemStatus, !.calls = 2, !.imported_count = 0]
  /\ UNCHANGED <<gen, cache, consumer, callVars>>

\* supabase_client.py:356-357 and main.py:324: imported grows by len(chunk) for a
\* chunk answered 204 and is the imported_count of the response, which is logged.
AckMarkLogged(h) ==
  /\ mark_next_chunk(h)
  /\ ackLog' = [ackLog EXCEPT !.imported_count = @ + Len(Head(ackChunks[h]))]
  /\ UNCHANGED <<gen, cache, consumer, callVars>>

\* ------------------------------------------------------------- generate_page_content

NumCities == 2
Cities == 1..NumCities
PageModes == {"service_city", "service_hub", "city_hub"}

\* One more request to https://api.openai.com/v1/chat/completions
LlmCall(r) == [r EXCEPT !.llm_calls = @ + 1]
\* ai_generator.py:176-212: _call_openai_json posts to the endpoint once
call_openai_json(r) == [LlmCall(r) EXCEPT !.json_calls = @ + 1]
Done(r, outcome) == [r EXCEPT !.pc = "done", !.outcome = outcome]
\* The answer of the last _validate_output run: "clean" for an empty list.
Validator(r, errors) == [r EXCEPT !.validated = IF errors THEN "errors" ELSE "clean"]

GenFrame == UNCHANGED <<queueVars, procVars, ackLog, ackChunks, consumer, callVars>>

\* ai_generator.py:79-99: a request arrives and is routed on page_mode.  The
\* caller is a thread of the worker's pool (worker.py:130) or the handler of
\* POST /generate-page (main.py:120, 149), which runs inside the event loop.
generate_page_content(g, page_mode, city, in_event_loop) ==
  /\ gen[g].pc \in {"idle", "done"}
  /\ gen' = [gen EXCEPT ![g] = [GenIdle EXCEPT
       !.page_mode = page_mode,
       !.city = city,
       !.in_event_loop = in_event_loop,
       !.pc = IF page_mode = "service_hub" THEN "service_hub"
              ELSE IF page_mode = "city_hub" THEN "city_hub"
              ELSE "fetch_city_data"]]
  /\ UNCHANGED cache
  /\ GenFrame

LandmarkAnswers == {"list", "not_a_list", "error"}

\* ai_generator.py:105-110 with local_data_fetcher.py:165-169: asyncio.run raises
\* inside a running event loop and the exception is swallowed, so nothing is
\* fetched; otherwise _fetch_ai_landmarks looks in the cache and goes on to its
\* request when the city is not there.  The process has its OpenAI key (line
\* 171), as every generation call needs it.
fetch_city_data(g) ==
  /\ gen[g].pc = "fetch_city_data"
  /\ gen' = [gen EXCEPT ![g].pc =
       IF gen[g].in_event_loop \/ gen[g].city \in cache THEN "generation"
       ELSE "fetch_ai_landmarks"]
  /\ UNCHANGED cache
  /\ GenFrame

\* local_data_fetcher.py:194-230: the request to the LLM endpoint is answered;
\* a list is cached, whatever the cache holds by now, and a failure only leaves
\* the landmarks empty.
fetch_ai_landmarks(g, answer) ==
  /\ gen[g].pc = "fetch_ai_landmarks"
  /\ gen' = [gen EXCEPT ![g] =
       [LlmCall(gen[g]) EXCEPT !.pc = "generation", !.landmark_calls = @ + 1]]
  /\ cache' = IF answer = "list" THEN cache \cup {gen[g].city} ELSE cache
  /\ GenFrame

\* The answer of the generation call: "ok" for a 200 with valid JSON, "failed" for
\* a non-200 status or content that is not JSON (_call_openai_json raises).
GenerationCall(r, ok) ==
  [call_openai_json(r) EXCEPT !.generation = IF ok THEN "ok" ELSE "failed"]

\* Faulty variant of call_openai_generation: a failed call is handed to the repair.
call_openai_generation_repaired(g, ok) ==
  /\ gen[g].pc = "generation"
  /\ gen' = [gen EXCEPT ![g] =
       IF ok THEN [GenerationCall(gen[g], ok) EXCEPT !.pc = "validate"]
       ELSE [GenerationCall(gen[g], ok) EXCEPT !.pc = "repair"]]
  /\ UNCHANGED cache
  /\ GenFrame

\* ai_generator.py:113 (_call_openai_generation, line 516): an API error or invalid
\* JSON raises out of the generation.
call_openai_generation(g, ok) ==
  /\ gen[g].pc = "generation"
  /\ gen' = [gen EXCEPT ![g] =
       IF ok THEN [GenerationCall(gen[g], ok) EXCEPT !.pc = "validate"]
       ELSE Done(GenerationCall(gen[g], ok), "raised")]
  /\ UNCHANGED cache
  /\ GenFrame

\* ai_generator.py:116-122: _assemble_response, which raises on JSON that is not
\* an object with section and FAQ objects (content_json.get, section.get), then
\* _validate_output on the assembled response.
validate_output(g, assembled, errors) ==
  /\ gen[g].pc = "validate"
  /\ gen' = [gen EXCEPT ![g] =
       IF ~assembled THEN Done(gen[g], "raised")
       ELSE IF errors THEN [Validator(gen[g], errors) EXCEPT !.pc = "repair"]
       ELSE Done(Validator(gen[g], errors), "returned")]
  /\ UNCHANGED cache
  /\ GenFrame

\* ai_generator.py:124 (_repair_output, line 963)
repair_output(g, ok) ==
  /\ gen[g].pc = "repair"
  /\ gen' = [gen EXCEPT ![g] =
       IF ok THEN [call_openai_json(gen[g]) EXCEPT !.pc = "revalidate", !.repairs = @ + 1]
       ELSE Done([call_openai_json(gen[g]) EXCEPT !.repairs = @ + 1], "raised")]
  /\ UNCHANGED cache
  /\ GenFrame

\* Faulty variant of revalidate_output: a repaired response that is still invalid
\* is repaired again.
revalidate_output_again(g, assembled, errors) ==
  /\ gen[g].pc = "revalidate"
  /\ gen' = [gen EXCEPT ![g] =
       IF ~assembled THEN Done(gen[g], "raised")
       ELSE IF errors THEN [Validator(gen[g], errors) EXCEPT !.pc = "repair"]
       ELSE Done(Validator(gen[g], errors), "returned")]
  /\ UNCHANGED cache
  /\ GenFrame

\* ai_generator.py:125-132: the repaired JSON is assembled, which raises as at
\* line 116, and validated a second time; errors raise.
revalidate_output(g, assembled, errors) ==
  /\ gen[g].pc = "revalidate"
  /\ gen' = [gen EXCEPT ![g] =
       IF ~assembled THEN Done(gen[g], "raised")
       ELSE IF errors THEN Done(Validator(gen[g], errors), "invalid_after_repair")
       ELSE Done(Validator(gen[g], errors), "returned")]
  /\ UNCHANGED cache
  /\ GenFrame

\* ai_generator_hub.py:17-110: assembled from templates, no request to the LLM
generate_service_hub_content(g) ==
  /\ gen[g].pc = "service_hub"
  /\ gen' = [gen EXCEPT ![g] = Done(gen[g], "returned")]
  /\ UNCHANGED cache
  /\ GenFrame

\* ai_generator_city_hub.py:47-83 and 316-322: one _call_openai_json, fallback
\* content when it raises; JSON that is not an object with a list of block
\* objects raises at content_json.get or blocks[0].get, outside any try.
generate_city_hub_content(g, ok, assembled) ==
  /\ gen[g].pc = "city_hub"
  /\ gen' = [gen EXCEPT ![g] =
       IF ok /\ ~assembled THEN Done(GenerationCall(gen[g], ok), "raised")
       ELSE Done(GenerationCall(gen[g], ok), "returned")]
  /\ UNCHANGED cache
  /\ GenFrame

\* ------------------------------------------------------------- specification

\* The steps of a task other than the one taken for a canceled job.
WorkerRun(w) ==
  \/ \E i \in ItemIds : StartTask(w, i)
  \/ MaxAttemptsExceeded(w)
  \/ TryClaim(w)
  \/ GetJob(w)
  \/ \E active \in BOOLEAN : GetLicense(w, active)
  \/ FailLicense(w)
  \/ \E allowed \in BOOLEAN : CheckCanGenerate(w, allowed)
  \/ FailQuota(w)
  \/ \E ok \in BOOLEAN : Generate(w, ok)
  \/ SaveResult(w)
  \/ \E logged \in BOOLEAN : LogUsage(w, logged) /\ RowsBelowBound(w, logged)
  \/ MarkCompleted(w)
  \/ HandleError(w)
  \/ RecomputeScan(w)
  \/ RecomputeGetJob(w)
  \/ RecomputePatch(w)

WorkerStep(w) ==
  \/ WorkerRun(w)
  \/ FailJobStatus(w)

Next ==
  \/ \E w \in Workers : WorkerStep(w)
  \/ \E h \in Handlers : \E j \in JobIds : \E ids \in AckInputs : AckBulkJobResults(h, j, ids)
  \/ \E h \in Handlers : \E j \in JobIds : GetBulkJobStatus(h, j)
  \/ \E h \in Handlers : HandlerStep(h)
  \/ \E j \in JobIds : CancelBulkJob(j)

Spec == Init /\ [][Next]_vars

\* The queue while no client cancels a job.
NextUncanceled ==
  \/ \E w \in Workers : WorkerRun(w)
  \/ \E h \in Handlers : \E j \in JobIds : \E ids \in AckInputs : AckBulkJobResults(h, j, ids)
  \/ \E h \in Handlers : \E j \in JobIds : GetBulkJobStatus(h, j)
  \/ \E h \in Handlers : HandlerStep(h)

SpecUncanceled == Init /\ [][NextUncanceled]_vars

\* The worker tasks and the cancel request, with requests the store does not
\* execute (error status, timeout).
FaultStep(w) ==
  \/ TryClaimFails(w)
  \/ SkipUnclaimed(w)
  \/ GetJobFails(w)
  \/ FailJobNotFound(w)
  \/ SaveResultFails(w)

NextFaults ==
  \/ \E w \in Workers : WorkerStep(w)
  \/ \E j \in JobIds : CancelBulkJob(j)
  \/ \E w \in Workers : FaultStep(w)

SpecFaults == Init /\ [][NextFaults]_vars

\* The process of task w stops between the write of result_json (worker.py:134-138)
\* and the write of status completed (worker.py:162-165): the task is gone, the
\* row stays running with its result.
Crash(w) ==
  /\ pc[w] \in {"log_usage", "mark_completed"}
  /\ Return(w)
  /\ UNCHANGED <<queueVars, rcJob, rcCount, rcNewStatus, otherVars>>

\* One task at a time, with processes that may stop after saving a result:
\* the next task starts when the one before it has returned or was stopped.
\* main_async polls for ever, so a task that can take a step eventually does.
Alone(w) == \A v \in Workers \ {w} : pc[v] = "idle"

NextCrash ==
  \/ \E w \in Workers : Alone(w) /\ WorkerRun(w)
  \/ \E w \in Workers : Alone(w) /\ Crash(w)

SpecCrash ==
  Init /\ [][NextCrash]_vars /\ \A w \in Workers : WF_vars(WorkerRun(w))

\* Acknowledgement calls alone, each served request by request, on any statuses
\* the items may have, with the counters as a recompute leaves them.
InitAck ==
  /\ itemStatus \in [ItemIds -> Statuses]
  /\ itemAttempts = [i \in ItemIds |-> IF itemStatus[i] = "pending" THEN 0 ELSE 1]
  /\ itemResult = [i \in ItemIds |->
       IF itemStatus[i] \in {"completed", "imported"} THEN 1 ELSE NoResult]
  /\ jobCounters = [j \in JobIds |-> CounterPayload(ScanCounts(itemStatus, j))]
  /\ jobStatus = [j \in JobIds |->
       NewStatus("running", TotalItems(j), jobCounters[j].completed, jobCounters[j].failed)]
  /\ IdleProcs
  /\ InitOther

NextAck ==
  \/ \E h \in Handlers : \E j \in JobIds : \E ids \in AckRequests : AckCall(h, j, ids)
  \/ \E h \in Handlers : AckAgain(h)
  \/ \E h \in Handlers : AckMarkLogged(h)
  \/ \E h \in Handlers : HandlerRecompute(h)

SpecAck == InitAck /\ [][NextAck]_vars

\* Generation requests alone.
NextGen ==
  \/ \E g \in Gens, page_mode \in PageModes, city \in Cities, in_event_loop \in BOOLEAN :
       generate_page_content(g, page_mode, city, in_event_loop)
  \/ \E g \in Gens : fetch_city_data(g)
  \/ \E g \in Gens, answer \in LandmarkAnswers : fetch_ai_landmarks(g, answer)
  \/ \E g \in Gens, ok \in BOOLEAN : call_openai_generation(g, ok)
  \/ \E g \in Gens, assembled \in BOOLEAN, errors \in BOOLEAN : validate_output(g, assembled, errors)
  \/ \E g \in Gens, ok \in BOOLEAN : repair_output(g, ok)
  \/ \E g \in Gens, assembled \in BOOLEAN, errors \in BOOLEAN :
       revalidate_output(g, assembled, errors)
  \/ \E g \in Gens : generate_service_hub_content(g)
  \/ \E g \in Gens, ok \in BOOLEAN, assembled \in BOOLEAN : generate_city_hub_content(g, ok, assembled)

SpecGen == Init /\ [][NextGen]_vars

\* The steps of the tasks of a process whose license is active, whose quota
\* check allows and whose usage rows the store takes; a generation may fail.
ResultsRun(w) ==
  \/ \E i \in ItemIds : StartTask(w, i)
  \/ TryClaim(w)
  \/ GetJob(w)
  \/ GetLicense(w, TRUE)
  \/ CheckCanGenerate(w, TRUE)
  \/ \E ok \in BOOLEAN : Generate(w, ok)
  \/ SaveResult(w)
  \/ LogUsage(w, TRUE) /\ RowsBelowBound(w, TRUE)
  \/ MarkCompleted(w)
  \/ HandleError(w)
  \/ RecomputeScan(w)
  \/ RecomputeGetJob(w)
  \/ RecomputePatch(w)

\* The items of job ConsumerJob, all pending at first, are processed by the tasks
\* of one worker, one at a time and request by request, while the job's client
\* lists and acknowledges; the client keeps calling and its requests are served.
\* The other jobs are older ones, complete and acknowledged.
ResultsWorker == CHOOSE w \in Workers : TRUE
InitResults ==
  /\ itemStatus = [i \in ItemIds |-> IF JobOf(i) = ConsumerJob THEN "pending" ELSE "imported"]
  /\ itemAttempts = [i \in ItemIds |-> IF JobOf(i) = ConsumerJob THEN 0 ELSE 1]
  /\ itemResult = [i \in ItemIds |-> IF JobOf(i) = ConsumerJob THEN NoResult ELSE 1]
  /\ jobStatus = [j \in JobIds |-> IF j = ConsumerJob THEN "running" ELSE "complete"]
  /\ jobCounters = [j \in JobIds |-> CounterPayload(ScanCounts(itemStatus, j))]
  /\ IdleProcs
  /\ InitOther

NextResults ==
  \/ ResultsRun(ResultsWorker)
  \/ ConsumerStep

SpecResults == InitResults /\ [][NextResults]_vars /\ WF_vars(ConsumerStep)

TypeOK ==
  /\ itemStatus \in [ItemIds -> Statuses]
  /\ itemAttempts \in [ItemIds -> 0..MAX_ATTEMPTS]
  /\ jobStatus \in [JobIds -> {"running", "complete", "canceled"}]

\* ------------------------------------------------------------- license gate: check_can_generate

\* What a REST lookup can do: answer 200, answer another status, or raise
\* (timeout, connection error, a body that is not JSON).
Answers == {"ok", "status", "raise"}
\* The API-key lookup with status 200 answers the row with its subscription, no
\* row, or a row without a subscription.
KeyAnswers == {"ok", "empty", "no_subscription", "status", "raise"}

RECURSIVE SumOver(_, _)
SumOver(S, f) ==
  IF S = {} THEN 0
  ELSE LET k == CHOOSE x \in S : TRUE IN f[k] + SumOver(S \ {k}, f)

\* supabase_client.py:124: the ids of the subscription's keys, or the calling key
\* alone when the lookup answers another status than 200.
api_key_ids(api_key_id, sub_keys_answer) ==
  IF sub_keys_answer = "ok" THEN KeysOf(SubscriptionOf(api_key_id)) ELSE {api_key_id}

\* supabase_client.py:137 and 147: a count query adds the number of rows it
\* returns, and 0 when it answers another status than 200.
CountOf(answer, rows) == IF answer = "ok" THEN rows ELSE 0

WithinPageLimitOnly(total_pages, page_limit, period_pages, monthly_limit) ==
  ~(total_pages >= page_limit)

\* supabase_client.py:159-165: both limits.
WithinLimits(total_pages, page_limit, period_pages, monthly_limit) ==
  IF total_pages >= page_limit THEN FALSE
  ELSE IF period_pages >= monthly_limit THEN FALSE
  ELSE TRUE

GateDone(g) == g.pc = "idle" /\ g.calls > 0

\* A return of (False, reason, {}): supabase_client.py:100, 104, 110 and 169.
Deny(g, failed) ==
  [g EXCEPT !.pc = "idle", !.calls = 1, !.ids = {}, !.lookup_failed = failed,
            !.all_ok = FALSE, !.allowed = FALSE]

GateFrame ==
  UNCHANGED <<queueVars, procVars, apiVars, usageLogs, usageItems, subscription, quotaCheck,
              slugCall, page, http, pool>>

\* supabase_client.py:94-115: the lookup of the key with its subscription; the
\* call keeps the current_period_start it reads here (line 114).
key_lookup(api_key_id, key_answer) ==
  IF key_answer \in {"status", "raise"} THEN [Deny(NoGate, TRUE) EXCEPT !.key = api_key_id]
  ELSE IF key_answer \in {"empty", "no_subscription"}
    THEN [Deny(NoGate, FALSE) EXCEPT !.key = api_key_id]
  ELSE [NoGate EXCEPT !.pc = "sub_keys", !.key = api_key_id,
                      !.period_start = subscription.current_period_start]

\* supabase_client.py:119-128: the lookup of the subscription's key ids.
sub_keys_lookup(g, sub_keys_answer) ==
  IF sub_keys_answer = "raise" THEN Deny(g, TRUE)
  ELSE [g EXCEPT !.pc = "total",
                 !.ids = api_key_ids(g.key, sub_keys_answer),
                 !.lookup_failed = (sub_keys_answer # "ok")]

\* The key the loop of supabase_client.py:130 is at.
key_id(g) == CHOOSE k \in g.ids : \A other \in g.ids : k <= other

\* supabase_client.py:132-137: the count of the key's success rows, as the store
\* holds them when the request is answered.
count_total(g, total_answer) ==
  IF total_answer = "raise" THEN Deny(g, TRUE)
  ELSE [g EXCEPT !.pc = "period",
                 !.total_pages = @ + CountOf(total_answer, usageLogs[key_id(g)].total),
                 !.lookup_failed = @ \/ total_answer # "ok"]

RECURSIVE SeqSum(_)
SeqSum(counts) == IF counts = <<>> THEN 0 ELSE Head(counts) + SeqSum(Tail(counts))

\* supabase_client.py:141-147: the rows of a key with created_at at or after
\* period_start: those of the current period and of every period that began at
\* period_start or later.
RowsSince(k, period_start) ==
  usageLogs[k].period
    + SeqSum(SubSeq(usageLogs[k].earlier, period_start + 1, Len(usageLogs[k].earlier)))

\* supabase_client.py:139-165: the count of the key's success rows since the
\* period start the call read, then the next key, and after the last key the two
\* limits.
count_period(g, period_answer) ==
  LET period_pages == g.period_pages
                        + CountOf(period_answer, RowsSince(key_id(g), g.period_start))
      failed == g.lookup_failed \/ period_answer # "ok"
      rest == g.ids \ {key_id(g)}
  IN IF period_answer = "raise" THEN Deny(g, TRUE)
     ELSE IF rest # {}
       THEN [g EXCEPT !.pc = "total", !.ids = rest, !.period_pages = period_pages,
                      !.lookup_failed = failed]
     ELSE [g EXCEPT !.pc = "idle", !.calls = 1, !.ids = rest,
                    !.period_pages = period_pages,
                    !.lookup_failed = failed, !.all_ok = ~failed,
                    !.allowed = WithinLimits(g.total_pages, subscription.page_limit,
                                             period_pages,
                                             subscription.monthly_generation_limit)]

\* One call of check_can_generate, request by request; rows may be written
\* between any two of its requests.
check_can_generate(api_key_id, key_answer) ==
  /\ gate.pc = "idle"
  /\ gate' = key_lookup(api_key_id, key_answer)
  /\ GateFrame

LookupSubKeys(sub_keys_answer) ==
  /\ gate.pc = "sub_keys"
  /\ gate' = sub_keys_lookup(gate, sub_keys_answer)
  /\ GateFrame

CountTotal(total_answer) ==
  /\ gate.pc = "total"
  /\ gate' = count_total(gate, total_answer)
  /\ GateFrame

CountPeriod(period_answer) ==
  /\ gate.pc = "period"
  /\ gate' = count_period(gate, period_answer)
  /\ GateFrame

\* log_usage (supabase_client.py:182) of a success action by any caller: one more
\* row of the key, created now, hence within the current period.
log_usage(api_key_id) ==
  /\ usageLogs' = [usageLogs EXCEPT ![api_key_id] =
                     [@ EXCEPT !.total = @ + 1, !.period = @ + 1]]
  /\ UNCHANGED <<queueVars, procVars, apiVars, usageItems, subscription, gate, quotaCheck,
                 slugCall, page, http, pool>>

\* main.py:341-391: POST /admin/reset-monthly-periods with the right secret calls
\* the stored procedure reset_monthly_generation_periods, which is not part of
\* the sources.  Answered 200 or 204, it has moved the current_period_start of
\* the subscription to now, so that no row lies in the new period, or it has
\* left the subscription alone; any other outcome of the request changes
\* nothing.
reset_monthly_periods(secret_ok, answer, moved) ==
  /\ IF secret_ok /\ answer = "ok" /\ moved
       THEN /\ subscription' = [subscription EXCEPT !.current_period_start = @ + 1]
            /\ usageLogs' = [k \in Keys |->
                 IF k \in KeysOf(1)
                   THEN [usageLogs[k] EXCEPT !.earlier = Append(@, usageLogs[k].period),
                                             !.period = 0]
                   ELSE usageLogs[k]]
       ELSE UNCHANGED <<subscription, usageLogs>>
  /\ UNCHANGED <<queueVars, procVars, apiVars, usageItems, gate, quotaCheck,
                 slugCall, page, http, pool>>

\* The requests of the other callers of a run: they write up to MaxUsage success
\* rows of a key and reset the period up to MaxResets times.
UsageBelowBound(k) == usageLogs[k].total < MaxUsage
ResetsBelowBound == subscription.current_period_start < MaxResets

ResetRequest ==
  \E secret_ok \in BOOLEAN, answer \in Answers, moved \in BOOLEAN :
    ResetsBelowBound /\ reset_monthly_periods(secret_ok, answer, moved)

\* Rows of earlier periods and the limits of the plan: the store as the gate may
\* find it.
InitGate ==
  /\ InitQueue
  /\ IdleProcs
  /\ InitApi
  /\ \E old \in [Keys -> 0..MaxUsage] :
       usageLogs = [k \in Keys |-> [total |-> old[k], period |-> 0, earlier |-> <<>>]]
  /\ usageItems = NoItemUsage
  /\ subscription \in [page_limit : 1..MaxQuota, monthly_generation_limit : 1..MaxQuota,
                       current_period_start : {0}]
  /\ gate = NoGate
  /\ quotaCheck = [w \in Workers |-> NoGate]
  /\ slugCall = NoSlug
  /\ page = NoPage
  /\ http = NoHttp
  /\ pool = NoPool

\* The steps of calls of check_can_generate.
GateStep ==
  \/ \E k \in KeysOf(1), key_answer \in KeyAnswers : check_can_generate(k, key_answer)
  \/ \E answer \in Answers :
       LookupSubKeys(answer) \/ CountTotal(answer) \/ CountPeriod(answer)

\* Calls of check_can_generate while other callers write usage rows and the
\* period is reset.
NextGate ==
  \/ GateStep
  \/ \E k \in Keys : UsageBelowBound(k) /\ log_usage(k)
  \/ ResetRequest

SpecGate == InitGate /\ [][NextGate]_vars

\* Calls of check_can_generate on a store that holds still during each call:
\* rows are written and the period is reset between two calls only.
StoreAtRest == gate.pc = "idle"

NextGateAtRest ==
  \/ GateStep
  \/ \E k \in Keys : StoreAtRest /\ UsageBelowBound(k) /\ log_usage(k)
  \/ StoreAtRest /\ ResetRequest

SpecGateAtRest == InitGate /\ [][NextGateAtRest]_vars

\* ------------------------------------------------------------- slugify

\* A string is a sequence of characters.  One character of each class that
\* slugify tells apart: lower-case letter, upper-case letter, digit, whitespace,
\* hyphen, other punctuation.
Chars == {"a", "A", "1", " ", "-", "!"}
Whitespace == {" "}
LowerAlphabet ==
  <<"a", "b", "c", "d", "e", "f", "g", "h", "i", "j", "k", "l", "m",
    "n", "o", "p", "q", "r", "s", "t", "u", "v", "w", "x", "y", "z">>
UpperAlphabet ==
  <<"A", "B", "C", "D", "E", "F", "G", "H", "I", "J", "K", "L", "M",
    "N", "O", "P", "Q", "R", "S", "T", "U", "V", "W", "X", "Y", "Z">>
Digits == {"0", "1", "2", "3", "4", "5", "6", "7", "8", "9"}
Alnum == Range(LowerAlphabet) \cup Range(UpperAlphabet) \cup Digits
MaxLen == 2
SLUG_MAX == 60

RECURSIVE Repeat(_, _)
Repeat(c, n) == IF n = 0 THEN <<>> ELSE <<c>> \o Repeat(c, n - 1)

\* str.strip(): no leading and no trailing whitespace.
RECURSIVE lstrip_space(_)
lstrip_space(s) ==
  IF s # <<>> /\ Head(s) \in Whitespace THEN lstrip_space(Tail(s)) ELSE s
RECURSIVE rstrip(_, _)
rstrip(s, chars) ==
  IF s # <<>> /\ s[Len(s)] \in chars THEN rstrip(SubSeq(s, 1, Len(s) - 1), chars) ELSE s
strip(s) == rstrip(lstrip_space(s), Whitespace)

\* str.lower()
lower_char(c) ==
  IF c \in Range(UpperAlphabet)
    THEN LowerAlphabet[CHOOSE i \in 1..Len(UpperAlphabet) : UpperAlphabet[i] = c]
    ELSE c
lower(s) == [i \in 1..Len(s) |-> lower_char(s[i])]

\* re.sub(r'[^a-zA-Z0-9\s]', '', s)
RECURSIVE remove_other(_)
remove_other(s) ==
  IF s = <<>> THEN <<>>
  ELSE IF Head(s) \in Alnum \cup Whitespace THEN <<Head(s)>> \o remove_other(Tail(s))
  ELSE remove_other(Tail(s))

\* re.sub(r'\s+', '-', s): every maximal run of whitespace becomes one hyphen.
RECURSIVE hyphenate(_)
hyphenate(s) ==
  IF s = <<>> THEN <<>>
  ELSE IF Head(s) \in Whitespace THEN <<"-">> \o hyphenate(lstrip_space(s))
  ELSE <<Head(s)>> \o hyphenate(Tail(s))

clean(s) == remove_other(lower(strip(s)))

\* s[:n]
Cut(s, n) == SubSeq(s, 1, IF Len(s) < n THEN Len(s) ELSE n)

\* AIContentGenerator.slugify (ai_generator.py:166-174)
slugify(service, city) ==
  LET service_slug == hyphenate(clean(service))
      city_slug == hyphenate(clean(city))
      slug == service_slug \o <<"-">> \o city_slug
  IN rstrip(Cut(slug, SLUG_MAX), {"-"})

SlugFrame == UNCHANGED <<queueVars, procVars, apiVars, gateVars, page, http, pool>>

\* The caller's arguments: a string typed character by character, or grown by a
\* run of letters that brings the slug to the 60-character cut.
TypeChar(field, c) ==
  /\ slugCall.calls = 0
  /\ Len(slugCall[field]) < MaxLen
  /\ slugCall' = [slugCall EXCEPT ![field] = Append(@, c)]
  /\ SlugFrame

FillTo(field, n) ==
  /\ slugCall.calls = 0
  /\ Len(slugCall[field]) <= MaxLen
  /\ slugCall' = [slugCall EXCEPT ![field] = Repeat("a", n) \o @]
  /\ SlugFrame

\* slugify called once, then once more with the same arguments.
CallSlugify ==
  /\ slugCall.calls < 2
  /\ slugCall' =
       IF slugCall.calls = 0
         THEN [slugCall EXCEPT !.calls = 1, !.first = slugify(slugCall.service, slugCall.city)]
         ELSE [slugCall EXCEPT !.calls = 2, !.second = slugify(slugCall.service, slugCall.city)]
  /\ SlugFrame

InitSlug == InitQueue /\ IdleProcs /\ InitApi /\ InitCalls

NextSlug ==
  \/ \E field \in {"service", "city"}, c \in Chars : TypeChar(field, c)
  \/ \E field \in {"service", "city"}, n \in (SLUG_MAX - 2)..SLUG_MAX : FillTo(field, n)
  \/ CallSlugify

SpecSlug == InitSlug /\ [][NextSlug]_vars

\* ------------------------------------------------------------- page texts and blocks

\* A text is the string it starts with (lead, a sequence of characters) followed
\* by a number of further plain words (more), each preceded by a space, that
\* hold no phrase the validator looks for.
Text(lead, more) == [lead |-> lead, more |-> more]
EmptyText == Text(<<>>, 0)
Str(lead) == Text(lead, 0)
\* f-string concatenation of strings.
Concat(a, b) == Text(a.lead \o b.lead, 0)

S_in == <<" ", "i", "n", " ">>
S_bar == <<" ", "|", " ">>
S_expert == <<"E", "x", "p", "e", "r", "t", " ">>
S_services == <<" ", "S", "e", "r", "v", "i", "c", "e", "s">>
S_comma == <<",", " ">>
S_space == <<" ">>
S_hyphen == <<"-">>
S_roof == <<"R", "o", "o", "f">>
S_tulsa == <<"T", "u", "l", "s", "a">>
S_ok == <<"O", "K">>
S_acme == <<"A", "c", "m", "e">>
S_main == <<"1", " ", "M", "a", "i", "n">>
S_phone == <<"5", "5", "5">>
S_coastal == <<"c", "o", "a", "s", "t", "a", "l">>
S_Coastal == <<"C", "o", "a", "s", "t", "a", "l">>
S_COASTAL == <<"C", "O", "A", "S", "T", "A", "L">>
S_trade == <<"R", "o", "o", "f", "i", "n", "g">>
S_home == <<"H", "o", "m", "e">>
S_default_hub_label == <<"S", "e", "r", "v", "i", "c", "e", "s">>
S_default_hub_slug == <<"s", "e", "r", "v", "i", "c", "e", "s">>
S_default_city == <<"Y", "o", "u", "r", " ", "C", "i", "t", "y">>
S_default_state == <<"S", "T">>

\* models.py:49-78
HeadingBlock(text, level) == [type |-> "heading", level |-> level, text |-> text]
ParagraphBlock(text) == [type |-> "paragraph", text |-> text]
FAQBlock(question, answer) == [type |-> "faq", question |-> question, answer |-> answer]
NAPBlock(business_name, phone, email, address) ==
  [type |-> "nap", business_name |-> business_name, phone |-> phone,
   email |-> email, address |-> address]
CTABlock(text, phone) == [type |-> "cta", text |-> text, phone |-> phone]

\* PageData (models.py:9-36): the fields the generators read.  Strings are
\* sequences of characters.
PageData(page_mode, company_name, phone, address, hub_slug) ==
  [page_mode |-> page_mode, service |-> S_roof, city |-> S_tulsa, state |-> S_ok,
   company_name |-> company_name, business_name |-> company_name, phone |-> phone,
   email |-> <<>>, address |-> address, hub_label |-> S_home, hub_slug |-> hub_slug,
   city_slug |-> <<>>, cta_text |-> <<"C", "a", "l", "l">>]

DEFAULT_CTA_AFTER == 5

\* ------------------------------------------------------------- _assemble_response

cta_after_section_default(content_json) == DEFAULT_CTA_AFTER

\* The LLM JSON of a service+city page: sections of heading and paragraph,
\* faqs of question and answer, cta_text, meta_description, and
\* structural_variance.cta_after_section as a sequence of no or one integer
\* (the key may be missing).
cta_after_section_of(content_json) ==
  IF content_json.cta_after_section = <<>> THEN DEFAULT_CTA_AFTER
  ELSE content_json.cta_after_section[1]

\* ai_generator.py:623-637: the blocks of the sections from number idx on.
RECURSIVE SectionBlocks(_, _, _, _)
SectionBlocks(sections, idx, cta_after_section, cta) ==
  IF idx > Len(sections) THEN <<>>
  ELSE LET section == sections[idx]
           heading == IF section.heading # EmptyText
                        THEN <<HeadingBlock(section.heading, 2)>> ELSE <<>>
           paragraph == IF section.paragraph # EmptyText
                          THEN <<ParagraphBlock(section.paragraph)>> ELSE <<>>
           inserted == IF idx = cta_after_section THEN <<cta>> ELSE <<>>
       IN heading \o paragraph \o inserted
            \o SectionBlocks(sections, idx + 1, cta_after_section, cta)

FaqBlocks(faqs) == [k \in 1..Len(faqs) |-> FAQBlock(faqs[k].question, faqs[k].answer)]

\* AIContentGenerator._assemble_response (ai_generator.py:602-671)
assemble_response(content_json, data) ==
  LET slug == slugify(data.service, data.city)
      title == Str(data.service \o S_in \o data.city \o S_bar \o data.company_name)
      h1_text == Str(S_expert \o data.service \o S_in \o data.city)
      cta_after_section == cta_after_section_of(content_json)
      cta == CTABlock(content_json.cta_text, data.phone)
      sections == content_json.sections
      nap == IF data.company_name # <<>> \/ data.address # <<>>
                \/ data.phone # <<>> \/ data.email # <<>>
               THEN <<NAPBlock(data.company_name, data.phone, data.email, data.address)>>
               ELSE <<>>
      last == IF cta_after_section > Len(sections) THEN <<cta>> ELSE <<>>
  IN [title |-> title, meta_description |-> content_json.meta_description, slug |-> slug,
      blocks |-> <<HeadingBlock(h1_text, 1)>>
                   \o SectionBlocks(sections, 1, cta_after_section, cta)
                   \o FaqBlocks(content_json.faqs) \o nap \o last]

\* ------------------------------------------------------------- hub pages

\* title += f" | {business_name}" if business_name
WithBusiness(lead, business_name) ==
  IF business_name # <<>> THEN lead \o S_bar \o business_name ELSE lead

\* generate_service_hub_content (ai_generator_hub.py:17-75): every block is
\* written by the program; after the level-1 heading and the intro come the
\* level-2 sections, the FAQs and the CTA of the variant.
service_hub_response(data) ==
  LET hub_label == IF data.hub_label # <<>> THEN data.hub_label ELSE S_default_hub_label
      hub_slug == IF data.hub_slug # <<>> THEN data.hub_slug ELSE S_default_hub_slug
      h1_text == hub_label \o S_space \o S_trade \o S_services
  IN [title |-> Str(WithBusiness(h1_text, data.business_name)),
      meta_description |-> Text(data.cta_text, 0),
      slug |-> hub_slug,
      blocks |-> <<HeadingBlock(Str(h1_text), 1), ParagraphBlock(Text(hub_label, 40)),
                   HeadingBlock(Text(hub_label, 3), 2), ParagraphBlock(Text(<<>>, 40)),
                   FAQBlock(Text(<<>>, 8), Text(<<>>, 30)),
                   CTABlock(Text(data.cta_text, 0), data.phone)>>]

\* generate_city_hub_content (ai_generator_city_hub.py:10-83): the level-1
\* heading, the first paragraph of the LLM blocks or a default one, then the LLM
\* blocks as they came.
city_hub_response(content_json, data) ==
  LET hub_label == IF data.hub_label # <<>> THEN data.hub_label ELSE S_default_hub_label
      city == IF data.city # <<>> THEN data.city ELSE S_default_city
      state == IF data.state # <<>> THEN data.state ELSE S_default_state
      h1_text == hub_label \o S_space \o S_trade \o S_in \o city \o S_comma \o state
      city_slug == IF data.city_slug # <<>> THEN data.city_slug
                   ELSE slugify(<<>>, city \o S_hyphen \o state)
      blocks == content_json.blocks
      first_is_paragraph == blocks # <<>> /\ blocks[1].type = "paragraph"
      hero == IF first_is_paragraph THEN blocks[1] ELSE ParagraphBlock(Text(hub_label, 12))
      rest == IF first_is_paragraph THEN Tail(blocks) ELSE blocks
  IN [title |-> Str(WithBusiness(h1_text, data.business_name)),
      meta_description |-> Text(data.cta_text, 0),
      slug |-> city_slug,
      blocks |-> <<HeadingBlock(Str(h1_text), 1), hero>> \o rest]

\* ------------------------------------------------------------- _validate_output

MIN_WORDS == 300
FIRST_WORDS == 150
REQUIRED_HEADINGS == 7
REQUIRED_PARAGRAPHS == 6
REQUIRED_SECTIONS == 6
MIN_FAQS == 3
MAX_FAQS == 5
MAX_NAP == 1
REQUIRED_CTA == 1

S_seo == <<"s", "e", "o">>
S_premier == <<"p", "r", "e", "m", "i", "e", "r">>
\* One phrase of each configured list (ai_generator.py:23-34 and 62-68).
FORBIDDEN_PHRASES == <<S_seo>>
FORBIDDEN_REGION_PHRASES == <<S_coastal>>
FORBIDDEN_MARKETING_FILLER == <<S_premier>>

S_electrical == <<"e", "l", "e", "c", "t", "r", "i", "c", "a", "l">>
S_roofing == <<"r", "o", "o", "f", "i", "n", "g">>
S_panel == <<"p", "a", "n", "e", "l">>
S_shingles == <<"s", "h", "i", "n", "g", "l", "e", "s">>
S_ridge == <<"r", "i", "d", "g", "e">>
\* Two categories of the configured dictionary, in its order, with terms of
\* their lists (ai_generator.py:37-58).
TRADE_VOCABULARY ==
  <<[category |-> S_electrical, vocab |-> <<S_panel>>],
    [category |-> S_roofing, vocab |-> <<S_shingles, S_ridge>>]>>
\* The paragraphs and the term count of the disabled check
\* (ai_generator.py:781 and 785).
CHECKED_PARAGRAPHS == 3
MIN_TRADE_TERMS == 1

\* The further plain words of a text, written as one character that is part of
\* no phrase.
Elided == "~"
Flatten(text) == text.lead \o (IF text.more > 0 THEN <<" ", Elided>> ELSE <<>>)

\* str.split(): the maximal runs of non-whitespace characters.
RECURSIVE FirstWord(_)
FirstWord(s) ==
  IF s = <<>> \/ Head(s) \in Whitespace THEN <<>> ELSE <<Head(s)>> \o FirstWord(Tail(s))
RECURSIVE split(_)
split(s) ==
  LET t == lstrip_space(s)
  IN IF t = <<>> THEN <<>>
     ELSE LET w == FirstWord(t)
          IN <<w>> \o split(SubSeq(t, Len(w) + 1, Len(t)))

\* " ".join(words)
RECURSIVE join(_)
join(words) ==
  IF words = <<>> THEN <<>>
  ELSE IF Len(words) = 1 THEN words[1]
  ELSE words[1] \o <<" ">> \o join(Tail(words))

\* len(text.split())
WordCount(text) == Len(split(text.lead)) + text.more

\* needle in hay
Contains(hay, needle) ==
  \E i \in 1..(Len(hay) - Len(needle) + 1) :
    \A k \in 1..Len(needle) : hay[i + k - 1] = needle[k]

RECURSIVE SumSeq(_)
SumSeq(s) == IF s = <<>> THEN 0 ELSE Head(s) + SumSeq(Tail(s))
SelectBlocks(blocks, type) == SelectSeq(blocks, LAMBDA b : b.type = type)

\* ai_generator.py:722-735
total_words(response) ==
  LET paragraph_blocks == SelectBlocks(response.blocks, "paragraph")
      faq_blocks == SelectBlocks(response.blocks, "faq")
  IN SumSeq([i \in 1..Len(paragraph_blocks) |-> WordCount(paragraph_blocks[i].text)])
       + SumSeq([i \in 1..Len(faq_blocks) |->
                   WordCount(faq_blocks[i].answer) + WordCount(faq_blocks[i].question)])

\* ai_generator.py:743-749: the attributes text, question and answer of a block
\* that are not empty.
BlockTexts(block) ==
  (IF "text" \in DOMAIN block /\ block.text # EmptyText THEN <<block.text>> ELSE <<>>)
    \o (IF "question" \in DOMAIN block /\ block.question # EmptyText
          THEN <<block.question>> ELSE <<>>)
    \o (IF "answer" \in DOMAIN block /\ block.answer # EmptyText
          THEN <<block.answer>> ELSE <<>>)

RECURSIVE AllBlockTexts(_)
AllBlockTexts(blocks) ==
  IF blocks = <<>> THEN <<>> ELSE BlockTexts(Head(blocks)) \o AllBlockTexts(Tail(blocks))

all_text(response) ==
  <<response.title, response.meta_description>> \o AllBlockTexts(response.blocks)

\* ai_generator.py:751: " ".join(all_text).lower()
combined_text(response) ==
  LET texts == all_text(response)
  IN lower(join([i \in 1..Len(texts) |-> Flatten(texts[i])]))

Error(code, detail) == [code |-> code, detail |-> detail]

\* ai_generator.py:752-764: one error for each phrase of the list that occurs.
PhraseErrors(phrases, code, text) ==
  LET found == SelectSeq(phrases, LAMBDA phrase : Contains(text, lower(phrase)))
  IN [i \in 1..Len(found) |-> Error(code, found[i])]

\* ai_generator.py:766-771
FirstParagraphErrors(response, data) ==
  LET paragraph_blocks == SelectBlocks(response.blocks, "paragraph")
  IN IF paragraph_blocks = <<>> THEN <<>>
     ELSE LET words == split(Flatten(paragraph_blocks[1].text))
              first_150_words ==
                lower(join(SubSeq(words, 1, IF Len(words) < FIRST_WORDS
                                              THEN Len(words) ELSE FIRST_WORDS)))
          IN IF Contains(first_150_words, lower(data.service))
                /\ Contains(first_150_words, lower(data.city))
               THEN <<>> ELSE <<Error("first_paragraph", 0)>>

\* ai_generator.py:773-776
MetaErrors(response, data) ==
  LET meta_desc == lower(Flatten(response.meta_description))
  IN IF Contains(meta_desc, lower(data.service)) /\ Contains(meta_desc, lower(data.city))
       THEN <<>> ELSE <<Error("meta_description", 0)>>

block_count(blocks, type) == Len(SelectBlocks(blocks, type))
section_count(blocks) ==
  Len(SelectSeq(blocks, LAMBDA b : b.type = "heading" /\ b.level = 2))

BlockCountErrorsFailFast(blocks) ==
  IF block_count(blocks, "heading") # REQUIRED_HEADINGS
    THEN <<Error("headings", block_count(blocks, "heading"))>>
  ELSE IF block_count(blocks, "paragraph") # REQUIRED_PARAGRAPHS
    THEN <<Error("paragraphs", block_count(blocks, "paragraph"))>>
  ELSE IF block_count(blocks, "faq") < MIN_FAQS \/ block_count(blocks, "faq") > MAX_FAQS
    THEN <<Error("faqs", block_count(blocks, "faq"))>>
  ELSE IF section_count(blocks) # REQUIRED_SECTIONS
    THEN <<Error("sections", section_count(blocks))>>
  ELSE IF block_count(blocks, "nap") > MAX_NAP
    THEN <<Error("nap", block_count(blocks, "nap"))>>
  ELSE IF block_count(blocks, "cta") # REQUIRED_CTA
    THEN <<Error("cta", block_count(blocks, "cta"))>>
  ELSE <<>>

\* ai_generator.py:790-814
BlockCountErrors(blocks) ==
  (IF block_count(blocks, "heading") # REQUIRED_HEADINGS
     THEN <<Error("headings", block_count(blocks, "heading"))>> ELSE <<>>)
    \o (IF block_count(blocks, "paragraph") # REQUIRED_PARAGRAPHS
          THEN <<Error("paragraphs", block_count(blocks, "paragraph"))>> ELSE <<>>)
    \o (IF block_count(blocks, "faq") < MIN_FAQS \/ block_count(blocks, "faq") > MAX_FAQS
          THEN <<Error("faqs", block_count(blocks, "faq"))>> ELSE <<>>)
    \o (IF section_count(blocks) # REQUIRED_SECTIONS
          THEN <<Error("sections", section_count(blocks))>> ELSE <<>>)
    \o (IF block_count(blocks, "nap") > MAX_NAP
          THEN <<Error("nap", block_count(blocks, "nap"))>> ELSE <<>>)
    \o (IF block_count(blocks, "cta") # REQUIRED_CTA
          THEN <<Error("cta", block_count(blocks, "cta"))>> ELSE <<>>)

\* AIContentGenerator._get_trade_vocabulary_for_service (ai_generator.py:697-707):
\* the list of the first category that occurs in the lower-cased service name,
\* the empty list if none does.
get_trade_vocabulary_for_service(service) ==
  LET service_lower == lower(service)
      matches == SelectSeq(TRADE_VOCABULARY,
                           LAMBDA entry : Contains(service_lower, entry.category))
  IN IF matches = <<>> THEN <<>> ELSE matches[1].vocab

\* AIContentGenerator._count_trade_terms_in_text (ai_generator.py:709-716)
count_trade_terms_in_text(text, vocab) ==
  LET text_lower == lower(Flatten(text))
  IN Len(SelectSeq(vocab, LAMBDA term : Contains(text_lower, lower(term))))

\* Validation 5 as the commented lines ai_generator.py:780-786 would run it.
TradeVocabularyErrorsEnabled(response, data) ==
  LET trade_vocab == get_trade_vocabulary_for_service(data.service)
      paragraph_blocks == SelectBlocks(response.blocks, "paragraph")
      checked == IF Len(paragraph_blocks) < CHECKED_PARAGRAPHS
                   THEN Len(paragraph_blocks) ELSE CHECKED_PARAGRAPHS
      short == SelectSeq([idx \in 1..checked |-> idx],
                         LAMBDA idx :
                           /\ paragraph_blocks[idx].text # EmptyText
                           /\ count_trade_terms_in_text(paragraph_blocks[idx].text,
                                                        trade_vocab) < MIN_TRADE_TERMS)
  IN IF trade_vocab = <<>> THEN <<>>
     ELSE [k \in 1..Len(short) |-> Error("trade_vocabulary", short[k])]

\* Validation 5 (ai_generator.py:778-786): every line of the check is a
\* comment, so nothing is appended.
TradeVocabularyErrors(response, data) == <<>>

\* AIContentGenerator._validate_output (ai_generator.py:718-818).  The blocks
\* are instances of the block classes, so _validate_block_schemas adds nothing.
validation_errors(response, data) ==
  LET text == combined_text(response)
  IN (IF total_words(response) < MIN_WORDS
        THEN <<Error("word_count", total_words(response))>> ELSE <<>>)
       \o PhraseErrors(FORBIDDEN_PHRASES, "forbidden_phrase", text)
       \o PhraseErrors(FORBIDDEN_REGION_PHRASES, "forbidden_region_phrase", text)
       \o PhraseErrors(FORBIDDEN_MARKETING_FILLER, "forbidden_marketing_filler", text)
       \o FirstParagraphErrors(response, data)
       \o MetaErrors(response, data)
       \o TradeVocabularyErrors(response, data)
       \o BlockCountErrors(response.blocks)

\* ------------------------------------------------------------- page requests and LLM outputs

MaxSections == 2
MaxFaqs == 2
MaxBlocks == 2

\* Requests with and without the contact fields of the NAP block.
Requests ==
  {PageData(page_mode, S_acme, S_phone, S_main, <<>>) : page_mode \in PageModes}
    \cup {PageData(page_mode, <<>>, <<>>, <<>>, S_home) : page_mode \in PageModes}
    \cup {PageData("service_city", S_acme, S_phone, S_main \o S_space \o S_Coastal, <<>>),
          PageData("service_city", S_Coastal, S_phone, S_main, <<>>)}
    \cup {[PageData("service_city", S_acme, S_phone, S_main, <<>>)
             EXCEPT !.service = S_trade]}

RECURSIVE SeqsUpTo(_, _)
SeqsUpTo(S, n) ==
  IF n = 0 THEN {<<>>}
  ELSE LET shorter == SeqsUpTo(S, n - 1)
       IN shorter \cup {Append(q, x) : q \in {r \in shorter : Len(r) = n - 1}, x \in S}

\* Texts an LLM may write.
LlmHeadings == {Text(<<"W", "h", "y">>, 2), Text(<<"H", "o", "w">>, 2)}
LlmParagraph == Text(S_trade \o S_in \o S_tulsa, 60)
LlmFaq == [question |-> Text(<<"W", "h", "e", "n">>, 5), answer |-> Text(<<>>, 30)]
LlmMeta == Str(S_trade \o S_in \o S_tulsa)
LlmCta == Str(<<"C", "a", "l", "l", " ", "u", "s">>)

\* A section may come with an empty heading or an empty paragraph.
LlmSections ==
  [heading : {Text(<<"W", "h", "y">>, 2), EmptyText}, paragraph : {LlmParagraph, EmptyText}]

\* The JSON of a service+city page whatever the LLM makes of the prompt:
\* any number of sections and FAQs, cta_after_section missing or any number.
LlmPageJsons ==
  [sections : SeqsUpTo(LlmSections, MaxSections),
   faqs : SeqsUpTo({LlmFaq}, MaxFaqs),
   cta_after_section : {<<>>} \cup {<<n>> : n \in (-1)..(MaxSections + 1)},
   cta_text : {LlmCta},
   meta_description : {LlmMeta}]

\* The blocks of a city hub JSON: dictionaries of any type and level.
LlmBlocks ==
  {HeadingBlock(h, level) : h \in LlmHeadings, level \in 1..2}
    \cup {ParagraphBlock(LlmParagraph), FAQBlock(LlmFaq.question, LlmFaq.answer),
          CTABlock(LlmCta, S_phone)}
LlmCityHubJsons == [blocks : SeqsUpTo(LlmBlocks, MaxBlocks)]

\* The JSON the prompt asks for: REQUIRED_SECTIONS sections, MIN_FAQS..MAX_FAQS
\* FAQs, paragraphs of `more` plain words after the service and the city; and
\* the JSONs that differ from it in the number of sections or FAQs, in the
\* length of the paragraphs, in the CTA, or in one text (special).
ExtraCount == 1
SectionCounts == (REQUIRED_SECTIONS - ExtraCount)..(REQUIRED_SECTIONS + ExtraCount)
FaqCounts == (MIN_FAQS - ExtraCount)..(MAX_FAQS + ExtraCount)
ParagraphWords == {0, 32, 60}
S_roofing_in_tulsa == S_trade \o S_in \o S_tulsa

\* A text with a forbidden phrase that mentions the service and the city.
PhraseTexts ==
  {Text(S_roofing_in_tulsa \o S_space \o phrase, 60) :
     phrase \in {S_coastal, S_COASTAL, S_seo, S_premier}}
\* A text with a term of the roofing vocabulary.
TradeTexts == {Text(S_roofing_in_tulsa \o S_space \o <<"R", "i", "d", "g", "e">>, 60)}
NoSpecial == [field |-> "none", idx |-> 0, text |-> EmptyText]
Specials ==
  {NoSpecial}
    \cup [field : {"heading", "paragraph", "question", "answer"}, idx : 1..2,
          text : PhraseTexts \cup TradeTexts \cup {EmptyText}]
    \cup [field : {"cta_text", "meta_description"}, idx : {0}, text : PhraseTexts]

Pick(special, field, idx, text) ==
  IF special.field = field /\ special.idx = idx THEN special.text ELSE text

PageJson(n_sections, n_faqs, cta_after_section, more, special) ==
  [sections |-> [i \in 1..n_sections |->
      [heading |-> Pick(special, "heading", i, Text(<<"W", "h", "y">>, 2)),
       paragraph |-> Pick(special, "paragraph", i,
                          Text(IF i = 1 THEN S_roofing_in_tulsa ELSE <<>>, more))]],
   faqs |-> [k \in 1..n_faqs |->
      [question |-> Pick(special, "question", k, LlmFaq.question),
       answer |-> Pick(special, "answer", k, LlmFaq.answer)]],
   cta_after_section |-> cta_after_section,
   cta_text |-> Pick(special, "cta_text", 0, LlmCta),
   meta_description |-> Pick(special, "meta_description", 0, LlmMeta)]

PromptedJsons ==
  {PageJson(n_sections, n_faqs, cta_after_section, more, special) :
     n_sections \in SectionCounts, n_faqs \in FaqCounts,
     cta_after_section \in {<<>>, <<0>>}, more \in ParagraphWords, special \in Specials}

\* ------------------------------------------------------------- generating a page

Level1Texts(response) ==
  {response.blocks[i].text :
     i \in {k \in 1..Len(response.blocks) :
              response.blocks[k].type = "heading" /\ response.blocks[k].level = 1}}

\* The fields of a response that the program writes itself.
ProgramFields(response) ==
  [slug |-> response.slug, title |-> response.title, h1 |-> Level1Texts(response)]

PageFrame == UNCHANGED <<queueVars, procVars, apiVars, gateVars, slugCall, http, pool>>

\* A request arrives (generate_page_content, ai_generator.py:79-99).
NewRequest(data) ==
  /\ page.pc = "idle"
  /\ page' = [NoPage EXCEPT !.pc = "requested", !.data = data]
  /\ PageFrame

Built(content_json, response) ==
  [page EXCEPT !.pc = "built", !.content_json = content_json, !.response = response,
               !.errors = <<>>,
               !.first = IF page.first = NoFields THEN ProgramFields(response) ELSE @]

\* One generation of the request in progress from an LLM output.
ServiceCityPage(content_json) ==
  /\ page.pc = "requested"
  /\ page.data.page_mode = "service_city"
  /\ page' = Built(content_json, assemble_response(content_json, page.data))
  /\ PageFrame

ServiceHubPage ==
  /\ page.pc = "requested"
  /\ page.data.page_mode = "service_hub"
  /\ page' = Built(NoJson, service_hub_response(page.data))
  /\ PageFrame

CityHubPage(content_json) ==
  /\ page.pc = "requested"
  /\ page.data.page_mode = "city_hub"
  /\ page' = Built(content_json, city_hub_response(content_json, page.data))
  /\ PageFrame

\* Step 3 of _generate_service_city_content (ai_generator.py:117-118).
ValidateOutput ==
  /\ page.pc = "built"
  /\ page.data.page_mode = "service_city"
  /\ page' = [page EXCEPT !.pc = "validated",
                          !.errors = validation_errors(page.response, page.data)]
  /\ PageFrame

\* The same request is generated once more (the repair call of
\* _generate_service_city_content, or the request sent again): the LLM gives
\* another output.
GenerateAgain ==
  /\ page.pc \in {"built", "validated"}
  /\ page' = [page EXCEPT !.pc = "requested", !.content_json = NoJson,
                          !.response = NoResponse, !.errors = <<>>]
  /\ PageFrame

InitPage == InitQueue /\ IdleProcs /\ InitApi /\ InitCalls

NextPage ==
  \/ \E data \in Requests : NewRequest(data)
  \/ \E content_json \in LlmPageJsons \cup PromptedJsons : ServiceCityPage(content_json)
  \/ ServiceHubPage
  \/ \E content_json \in LlmCityHubJsons : CityHubPage(content_json)
  \/ ValidateOutput
  \/ GenerateAgain

SpecPage == InitPage /\ [][NextPage]_vars

\* ------------------------------------------------------------- POST /generate-page

MaxRequests == 2
\* The generation request and the repair request: inside the handler's event
\* loop no landmark request is made (ai_generator.py:107-108).
MAX_LLM_CALLS == 2
HTTP_OK == 200
HTTP_PAYMENT_REQUIRED == 402
HTTP_FORBIDDEN == 403
\* The id of the api_keys row of the request's license key.
CallerKey == 1

\* What get_license_by_key finds: no row (or a failed lookup), a row that is
\* not active, an active row.
Licenses == {"not_found", "inactive", "active"}
\* generate_page_content returns, or raises for a malformed LLM response or for
\* a validation that failed after the repair.
Outcomes == {"ok", "malformed", "invalid_after_repair"}

Detail(text, message) == [text |-> text, message |-> message]

require_known_license(license) ==
  IF license = "not_found" THEN Detail("License key not found", "none")
  ELSE Detail("none", "none")

\* _require_active_license (main.py:28-34): the detail of the 403, if any.
require_active_license(license) ==
  IF license = "not_found" THEN Detail("License key not found", "none")
  ELSE IF license # "active" THEN Detail("License is not active", "none")
  ELSE Detail("none", "none")

Respond(h, status_code, detail) ==
  [h EXCEPT !.pc = "idle", !.status_code = status_code, !.detail = detail,
            !.responses = @ + 1]

HttpFrame == UNCHANGED <<queueVars, procVars, apiVars, slugCall, page, pool>>

\* generate_page up to the quota check (main.py:90-130).
GeneratePage(license, preview) ==
  /\ http.pc = "idle"
  /\ http.requests < MaxRequests
  /\ LET refused == require_active_license(license)
         started == [NoHttp EXCEPT !.requests = http.requests + 1, !.license = license,
                                   !.preview = preview, !.rows = usageLogs]
     IN http' = IF refused.text # "none" THEN Respond(started, HTTP_FORBIDDEN, refused)
                ELSE [started EXCEPT !.pc = IF preview THEN "generate"
                                            ELSE "check_can_generate"]
  /\ gate' = NoGate
  /\ UNCHANGED <<usageLogs, usageItems, subscription, quotaCheck>>
  /\ HttpFrame

\* main.py:132-138: the answer of check_can_generate.
QuotaChecked ==
  /\ http.pc = "check_can_generate"
  /\ GateDone(gate)
  /\ http' = IF gate.allowed
               THEN [http EXCEPT !.pc = "generate", !.allowed = "yes"]
               ELSE Respond([http EXCEPT !.allowed = "no"], HTTP_PAYMENT_REQUIRED,
                            Detail("reason", "none"))
  /\ UNCHANGED gateVars
  /\ HttpFrame

\* The call of ai_generator.generate_page_content (main.py:115 and 150) with
\* its LLM calls, and the except branches (main.py:117-122 and 172-188): a row
\* with action ai_page_generation_failed is no success row.
GenerateContent(outcome, calls) ==
  /\ http.pc = "generate"
  /\ outcome # "ok" => calls >= 1
  /\ LET h == [http EXCEPT !.outcome = outcome, !.llm_calls = calls]
     IN http' =
          IF outcome = "ok"
            THEN IF http.preview THEN Respond(h, HTTP_OK, Detail("none", "none"))
                 ELSE [h EXCEPT !.pc = "log_usage"]
          ELSE IF http.preview
            THEN Respond(h, HTTP_ERROR, Detail("AI preview generation failed", outcome))
          ELSE Respond(h, HTTP_ERROR, Detail("AI content generation failed", outcome))
  /\ UNCHANGED gateVars
  /\ HttpFrame

\* main.py:162-170: the success row, when the store takes it, and the page.
LogSuccess(logged) ==
  /\ http.pc = "log_usage"
  /\ usageLogs' = IF logged
                    THEN [usageLogs EXCEPT ![CallerKey] =
                            [@ EXCEPT !.total = @ + 1, !.period = @ + 1]]
                    ELSE usageLogs
  /\ http' = Respond(http, HTTP_OK, Detail("none", "none"))
  /\ UNCHANGED <<usageItems, subscription, gate, quotaCheck>>
  /\ HttpFrame

InitHttp == InitGate

NextHttp ==
  \/ \E license \in Licenses, preview \in BOOLEAN : GeneratePage(license, preview)
  \/ /\ http.pc = "check_can_generate"
     /\ gate.calls = 0
     /\ \E key_answer \in KeyAnswers : check_can_generate(CallerKey, key_answer)
  \/ \E answer \in Answers :
       LookupSubKeys(answer) \/ CountTotal(answer) \/ CountPeriod(answer)
  \/ QuotaChecked
  \/ \E outcome \in Outcomes, calls \in 0..MAX_LLM_CALLS : GenerateContent(outcome, calls)
  \/ \E logged \in BOOLEAN : LogSuccess(logged)

SpecHttp == InitHttp /\ [][NextHttp]_vars

\* ------------------------------------------------------------- main_async: one process

PoolFrame == UNCHANGED <<queueVars, procVars, apiVars, gateVars, slugCall, page, http>>

TaskIs(t, state) == pool.task[t] = state
SetTask(t, state) == pool' = [pool EXCEPT !.task[t] = state]

\* The generations that a thread of the executor is running.
InFlight(p) == {t \in Tasks : p.task[t] = "running"}

\* Faulty variant of HasFreeThread: the executor starts a thread for every call.
AlwaysFreeThread(p) == TRUE

\* worker.py:232: ThreadPoolExecutor(max_workers=CONCURRENT_WORKERS) runs a
\* submitted call when fewer than max_workers threads are busy.
HasFreeThread(p) == Cardinality(InFlight(p)) < CONCURRENT_WORKERS

\* worker.py:245-257: list_pending_bulk_items(limit=BATCH_LIMIT) returns n rows and
\* a task is created for each; with no row the loop sleeps and polls again.
PollBatch(n) ==
  /\ pool.pc = "poll"
  /\ pool' = [pc |-> IF n = 0 THEN "poll" ELSE "gather",
              task |-> [t \in Tasks |-> IF t <= n THEN "created" ELSE "none"]]
  /\ PoolFrame

\* worker.py:59-97: the task returns before the generation (max attempts, claim
\* lost, job missing or canceled, license, quota).
TaskReturnsEarly(t) ==
  /\ TaskIs(t, "created")
  /\ SetTask(t, "done")
  /\ PoolFrame

\* worker.py:129-130: loop.run_in_executor(executor, generate_page_content, data);
\* the task waits for the future.
SubmitGeneration(t) ==
  /\ TaskIs(t, "created")
  /\ SetTask(t, "queued")
  /\ PoolFrame

\* A thread of the executor takes the call from its queue.
ExecutorStarts(t) ==
  /\ TaskIs(t, "queued")
  /\ HasFreeThread(pool)
  /\ SetTask(t, "running")
  /\ PoolFrame

\* generate_page_content returns or raises; the thread is free again.
GenerationEnds(t) ==
  /\ TaskIs(t, "running")
  /\ SetTask(t, "resumed")
  /\ PoolFrame

\* worker.py:132-200: the task writes its outcome, recomputes and returns.
TaskFinishes(t) ==
  /\ TaskIs(t, "resumed")
  /\ SetTask(t, "done")
  /\ PoolFrame

\* worker.py:260-261: asyncio.gather returns when every task of the batch has
\* returned; the loop goes back to polling.
GatherReturns ==
  /\ pool.pc = "gather"
  /\ \A t \in Tasks : pool.task[t] \in {"none", "done"}
  /\ pool' = [pool EXCEPT !.pc = "poll"]
  /\ PoolFrame

NextPool ==
  \/ \E n \in 0..BATCH_LIMIT : PollBatch(n)
  \/ \E t \in Tasks : TaskReturnsEarly(t)
  \/ \E t \in Tasks : SubmitGeneration(t)
  \/ \E t \in Tasks : ExecutorStarts(t)
  \/ \E t \in Tasks : GenerationEnds(t)
  \/ \E t \in Tasks : TaskFinishes(t)
  \/ GatherReturns

SpecPool == Init /\ [][NextPool]_vars

\* The worker processes alone: no client cancels, acknowledges or reads a job.
\* main_async polls for ever and every call of a task returns, so a task that
\* can take a step eventually takes it.
NextProgress == \E w \in Workers : WorkerRun(w)

SpecProgress ==
  Init /\ [][NextProgress]_vars /\ \A w \in Workers : WF_vars(WorkerRun(w))

\* ------------------------------------------------------------- worker: usage rows

\* worker.py:89-93: check_can_generate about the key of the job's license, one
\* request at a step, every lookup answered 200; after the last count the task
\* goes on to the generation or to the failure.
CheckCanGenerateLookup(w) ==
  /\ pc[w] = "check_quota"
  /\ LET g == quotaCheck[w]
         next == IF g.pc = "idle" THEN key_lookup(JobKey(JobOf(cur[w])), "ok")
                 ELSE IF g.pc = "sub_keys" THEN sub_keys_lookup(g, "ok")
                 ELSE IF g.pc = "total" THEN count_total(g, "ok")
                 ELSE count_period(g, "ok")
     IN IF GateDone(next)
          THEN /\ quotaCheck' = [quotaCheck EXCEPT ![w] = NoGate]
               /\ IF next.allowed THEN Goto(w, "generate") ELSE Goto(w, "fail_quota")
          ELSE /\ quotaCheck' = [quotaCheck EXCEPT ![w] = next]
               /\ UNCHANGED pc
  /\ UNCHANGED <<queueVars, cur, att, canceledInFlight, rcJob, rcCount, rcNewStatus, apiVars,
                 usageLogs, usageItems, subscription, gate, slugCall, page, http, pool>>

\* main_async (worker.py:245-260): the tasks of a batch are created for the
\* distinct rows of one listing.  The tasks here hold distinct rows.
StartBatchTask(w, i) ==
  /\ \A v \in Workers \ {w} : cur[v] # i
  /\ StartTask(w, i)

\* The steps of tasks that work on distinct rows, with the usage rows of the
\* store.  No row is listed with MAX_ATTEMPTS attempts here.
UsageRun(w) ==
  \/ \E i \in ItemIds : StartBatchTask(w, i)
  \/ TryClaim(w)
  \/ GetJob(w)
  \/ \E active \in BOOLEAN : GetLicense(w, active)
  \/ FailLicense(w)
  \/ CheckCanGenerateLookup(w)
  \/ FailQuota(w)
  \/ \E ok \in BOOLEAN : Generate(w, ok)
  \/ SaveResult(w)
  \/ \E logged \in BOOLEAN : LogUsage(w, logged) /\ RowsBelowBound(w, logged)
  \/ MarkCompleted(w)
  \/ HandleError(w)
  \/ RecomputeScan(w)
  \/ RecomputeGetJob(w)
  \/ RecomputePatch(w)

\* Two jobs of one subscription, each created with its own license key, with
\* their first rows pending; the rows after them are completed and have their
\* usage row, written in the current period.  The limits of the plan leave
\* room for the rows there are.
InitUsage ==
  /\ itemStatus = [i \in ItemIds |-> IF IdxOf(i) = 0 THEN "pending" ELSE "completed"]
  /\ itemAttempts = [i \in ItemIds |-> IF IdxOf(i) = 0 THEN 0 ELSE 1]
  /\ itemResult = [i \in ItemIds |-> IF IdxOf(i) = 0 THEN NoResult ELSE 1]
  /\ jobStatus = [j \in JobIds |-> "running"]
  /\ jobCounters = [j \in JobIds |-> CounterPayload(ScanCounts(itemStatus, j))]
  /\ IdleProcs
  /\ InitApi
  /\ usageItems = [i \in ItemIds |-> IF IdxOf(i) = 0 THEN 0 ELSE 1]
  /\ usageLogs = [k \in Keys |->
       LET rows == IF k \in JobIds
                     THEN Cardinality({i \in ItemsOf(k) : usageItems[i] = 1}) ELSE 0
       IN [total |-> rows, period |-> rows, earlier |-> <<>>]]
  /\ subscription \in [page_limit : 1..MaxQuota, monthly_generation_limit : 1..MaxQuota,
                       current_period_start : {0}]
  /\ gate = NoGate
  /\ quotaCheck = [w \in Workers |-> NoGate]
  /\ slugCall = NoSlug
  /\ page = NoPage
  /\ http = NoHttp
  /\ pool = NoPool

NextUsage ==
  \/ \E w \in Workers : UsageRun(w)
  \/ ResetRequest

SpecUsage == InitUsage /\ [][NextUsage]_vars

\* ------------------------------------------------------------- claims

\* C1: try_claim_bulk_item returns true only if its conditional update changed
\* exactly one row (the item was pending and became running), so that of two callers
\* racing for one pending item only one gets true.
C1_ClaimTrueOnlyIfRowChanged ==
  [][\A w \in Workers :
       (pc[w] = "start" /\ pc'[w] = "get_job")
         => (itemStatus[cur[w]] = "pending" /\ itemStatus'[cur[w]] = "running")]_vars

\* A task between a claim that returned true and its write of the item's next status.
ActivePcs ==
  {"get_job", "fail_job_not_found", "fail_job_status", "get_license", "fail_license",
   "check_quota", "fail_quota", "generate", "save_result", "log_usage",
   "mark_completed", "handle_error"}
ActiveOn(i) == {w \in Workers : cur[w] = i /\ pc[w] \in ActivePcs}

\* C2: at most one worker is past a successful claim of an item and has not yet
\* written the item's next status; in particular no two workers generate for the
\* same item at the same time.
C2_AtMostOneActiveWorker ==
  \A i \in ItemIds : Cardinality(ActiveOn(i)) <= 1

TerminalStatuses == {"completed", "failed", "imported"}
AllReturned == \A w \in Workers : pc[w] = "idle"

\* C3: for a job that is not canceled or failed, once all its items are terminal
\* and every _process_item_async call has returned, the persisted counters satisfy
\* completed + failed = total_items and the job status is complete.
C3_CountersCorrectWhenDone ==
  \A j \in JobIds :
    ( /\ jobStatus[j] \notin {"canceled", "failed"}
      /\ \A i \in ItemsOf(j) : itemStatus[i] \in TerminalStatuses
      /\ AllReturned )
    => ( /\ jobCounters[j].completed + jobCounters[j].failed = TotalItems(j)
         /\ jobStatus[j] = "complete" )

\* The last acknowledgement call has been answered.
Acked == ackLog.calls > 0 /\ HandlersIdle

\* C4: the second of two acknowledgement calls with the same ids leaves every item
\* status as the first call left it (it changes no further row), and no call turns
\* a failed item into an imported one.
C4_AckIdempotent ==
  Acked =>
    /\ mark_bulk_items_imported(itemStatus, ackLog.job, ackLog.ids) = itemStatus
    /\ (ackLog.calls = 2 => itemStatus = ackLog.before)
    /\ \A i \in ItemIds : ackLog.before[i] = "failed" => itemStatus[i] = "failed"

\* C4 witness: a request naming an item of its job that it imported and one that
\* is failed has been sent twice; the second call found the first item imported.
C4_Witness ==
  /\ ackLog.calls = 2
  /\ HandlersIdle
  /\ \E i, k \in ItemsOf(ackLog.job) \cap Range(ackLog.ids) :
       /\ ackLog.before[i] = "imported" /\ itemStatus[i] = "imported"
       /\ ackLog.before[k] = "failed" /\ itemStatus[k] = "failed"

\* C5: an acknowledgement call for job J changes exactly the items that are named
\* in the list, belong to J and were completed, and these become imported; every
\* other item keeps its status.
C5_AckMovesOnlyCompleted ==
  Acked =>
    \A i \in ItemIds :
      IF JobOf(i) = ackLog.job /\ i \in Range(ackLog.ids) /\ ackLog.before[i] = "completed"
        THEN itemStatus[i] = "imported"
        ELSE itemStatus[i] = ackLog.before[i]

\* C5 witness: a call for job J named a completed item of J, which it imported, and
\* a completed item of another job, which it left completed.
C5_Witness ==
  /\ ackLog.calls = 1
  /\ HandlersIdle
  /\ \E i, k \in Range(ackLog.ids) \cap ItemIds :
       /\ JobOf(i) = ackLog.job /\ ackLog.before[i] = "completed" /\ itemStatus[i] = "imported"
       /\ JobOf(k) # ackLog.job /\ ackLog.before[k] = "completed" /\ itemStatus[k] = "completed"

\* C6: one generation request never makes more than 2 requests to the LLM endpoint
\* nor more than one repair attempt, and with a validator that reports violations
\* both times it makes exactly 2.
C6_AtMostTwoLlmCalls ==
  \A g \in Gens :
    /\ gen[g].llm_calls <= 2
    /\ gen[g].repairs <= 1
    /\ (gen[g].outcome = "invalid_after_repair" => gen[g].llm_calls = 2)

\* C6 as the code has it: one request makes at most one repair attempt and at most 2
\* calls of _call_openai_json (exactly 2, one generation and one repair, when the
\* validator reports violations both times); the landmark lookup of a service+city
\* page generated outside the event loop is one more request to the LLM endpoint,
\* at most 3 in all.
C6_RepairBoundsWithLandmarks ==
  \A g \in Gens :
    /\ gen[g].repairs <= 1
    /\ gen[g].json_calls <= 2
    /\ gen[g].landmark_calls <= 1
    /\ gen[g].llm_calls = gen[g].json_calls + gen[g].landmark_calls
    /\ (gen[g].outcome = "invalid_after_repair" => gen[g].json_calls = 2 /\ gen[g].repairs = 1)
    /\ (gen[g].landmark_calls = 1 => gen[g].page_mode = "service_city" /\ ~gen[g].in_event_loop)
    /\ (gen[g].page_mode = "service_hub" => gen[g].llm_calls = 0)
    /\ (gen[g].page_mode = "city_hub" => gen[g].llm_calls <= 1)

\* C6 witness: a request whose validator reported violations both times has ended
\* after three requests to the LLM endpoint.
C6_Witness ==
  \E g \in Gens :
    /\ gen[g].pc = "done"
    /\ gen[g].outcome = "invalid_after_repair"
    /\ gen[g].llm_calls = 3

\* C7: an item is claimed for generation at most twice (attempts never exceeds the
\* retry limit of 2): after a second failed generation it is failed, not pending.
C7_AtMostTwoAttempts ==
  \A i \in ItemIds : itemAttempts[i] <= RETRY_BELOW

\* C8: once a job is canceled, no step sets its status to anything else.
C8_CanceledIsSticky ==
  [][\A j \in JobIds : jobStatus[j] = "canceled" => jobStatus'[j] = "canceled"]_vars

\* C9: a task whose job became canceled while its generation was in flight does not
\* mark its item completed.
C9_NoCompletionAfterInFlightCancel ==
  [][\A w \in Workers :
       ~( /\ canceledInFlight[w]
          /\ pc[w] = "mark_completed"
          /\ pc'[w] = "rc_scan"
          /\ itemStatus'[cur[w]] = "completed" )]_vars

\* C9 as the code has it: a cancel does not move a task out of its generation, and
\* a task looks at its job's status only in the step after its claim: there a
\* canceled job sends it to fail the item without generating, and nowhere else; a
\* task whose job became canceled in flight persists its result and marks the item
\* completed.
C9_CancelSeenOnlyAfterClaim ==
  [][\A w \in Workers :
       /\ (pc[w] = "generate" => pc'[w] \in {"generate", "save_result", "handle_error"})
       /\ (pc[w] = "get_job" /\ pc'[w] = "get_license"
             => jobStatus[JobOf(cur[w])] \notin {"canceled", "failed"})
       /\ (pc[w] # "fail_job_status" /\ pc'[w] = "fail_job_status"
             => pc[w] = "get_job" /\ jobStatus[JobOf(cur[w])] \in {"canceled", "failed"})
       /\ (canceledInFlight[w] /\ pc[w] = "mark_completed" /\ pc'[w] # "mark_completed"
             => itemStatus'[cur[w]] = "completed")]_vars

\* C9 witness: a task whose job was canceled during its generation has persisted its
\* result and is about to mark the item completed, the job still being canceled.
C9_Witness ==
  \E w \in Workers :
    /\ canceledInFlight[w]
    /\ pc[w] = "mark_completed"
    /\ itemResult[cur[w]] = w
    /\ jobStatus[JobOf(cur[w])] = "canceled"

Returned(i) == i \in consumer.seen

\* C10: for a client that keeps listing with the cursor it was given, every item of
\* the job that is completed or failed is eventually in a page it receives (if it
\* has not been in one already).
C10_FinishedItemsAreReturned ==
  \A i \in ItemsOf(ConsumerJob) :
    (itemStatus[i] \in ResultStatuses) ~> Returned(i)

\* C10 witness: the page just received holds an item below the cursor the request was
\* sent with, while an item above it was returned and acknowledged before.
C10_Witness ==
  /\ consumer.sent # NoCursor
  /\ \E i \in Range(consumer.page) : \E k \in ItemsOf(ConsumerJob) :
       /\ IdxOf(i) < consumer.sent
       /\ IdxOf(k) >= consumer.sent
       /\ itemStatus[k] = "imported"

\* C11: the license gate fails closed: a call of check_can_generate in which a
\* lookup it made failed (another status than 200, or an exception) answers
\* allowed = false.
C11_GateFailsClosed ==
  (GateDone(gate) /\ gate.lookup_failed) => ~gate.allowed

\* C12: when every lookup succeeds, check_can_generate allows exactly when the
\* success rows of all keys of the calling key's subscription are fewer than
\* page_limit and those of the current period fewer than monthly_generation_limit.
C12_DualCeilings ==
  [][(gate' # gate /\ GateDone(gate') /\ gate'.all_ok) =>
       LET keys == KeysOf(SubscriptionOf(gate'.key))
           total == SumOver(keys, [k \in keys |-> usageLogs[k].total])
           period == SumOver(keys, [k \in keys |-> usageLogs[k].period])
       IN gate'.allowed <=> (total < subscription.page_limit
                             /\ period < subscription.monthly_generation_limit)]_vars

\* A call with every lookup answered that is denied by the period ceiling alone.
C12_Witness ==
  /\ GateDone(gate) /\ gate.all_ok /\ ~gate.allowed
  /\ gate.total_pages < subscription.page_limit
  /\ gate.period_pages >= subscription.monthly_generation_limit

SlugChars == Range(LowerAlphabet) \cup Digits \cup {"-"}

\* C14: slugify called twice with the same (service, city) yields the same
\* output, and the output is a non-empty string of lower-case letters, digits and
\* hyphens with no leading and no trailing hyphen and of length at most 60.
C14_SlugFormat ==
  /\ slugCall.calls = 2 => slugCall.second = slugCall.first
  /\ slugCall.calls >= 1 =>
       LET out == slugCall.first
       IN /\ Len(out) >= 1
          /\ \A i \in 1..Len(out) : out[i] \in SlugChars
          /\ out[1] # "-"
          /\ out[Len(out)] # "-"
          /\ Len(out) <= SLUG_MAX

Level1Count(response) ==
  Cardinality({k \in 1..Len(response.blocks) :
                 response.blocks[k].type = "heading" /\ response.blocks[k].level = 1})

\* C13: slug, title and H1 never come from the LLM: two responses built for one
\* request from any two LLM outputs, in every page mode, have the same slug, the
\* same title and the same set of level-1 heading texts, and each has exactly one
\* level-1 heading.
C13_ProgramFieldsIgnoreLlm ==
  page.pc = "built" =>
    /\ Level1Count(page.response) = 1
    /\ ProgramFields(page.response) = page.first

IsSectionBlock(block) ==
  \/ block.type = "paragraph"
  \/ block.type = "heading" /\ block.level = 2
BlocksOfType(blocks, type) == {k \in 1..Len(blocks) : blocks[k].type = type}
H1First(blocks) ==
  blocks # <<>> /\ blocks[1].type = "heading" /\ blocks[1].level = 1
FaqsContiguous(blocks) ==
  \A i, k \in BlocksOfType(blocks, "faq") : \A j \in i..k : blocks[j].type = "faq"
SectionService == page.pc = "built" /\ page.data.page_mode = "service_city"

\* C19 as claimed: in every response of _assemble_response the first block is
\* the level-1 heading, the FAQ blocks are contiguous, and the CTA block comes
\* after every section heading and section paragraph.
C19_CtaAfterEverySection ==
  SectionService =>
    LET blocks == page.response.blocks
    IN /\ H1First(blocks)
       /\ FaqsContiguous(blocks)
       /\ \A c \in BlocksOfType(blocks, "cta") :
            \A i \in 1..Len(blocks) : IsSectionBlock(blocks[i]) => i < c

\* The blocks that the first n sections of the JSON contribute.
NonEmptyParts(sections, n) ==
  Cardinality({i \in 1..Len(sections) : i <= n /\ sections[i].heading # EmptyText})
    + Cardinality({i \in 1..Len(sections) : i <= n /\ sections[i].paragraph # EmptyText})

\* The section number that the LLM JSON asks the CTA to follow: its
\* structural_variance.cta_after_section, and 5 when the key is missing.
RequestedCtaSection(content_json) ==
  IF Len(content_json.cta_after_section) = 0 THEN DEFAULT_CTA_AFTER
  ELSE Head(content_json.cta_after_section)

\* C19: in every response of _assemble_response the first block is the level-1
\* heading and the FAQ blocks are contiguous; there is one CTA block when
\* cta_after_section is at least 1 and none otherwise; the CTA block stands right
\* after the blocks of the sections up to number cta_after_section, and is the
\* last block of the response when that number exceeds the number of sections.
C19_CtaAfterItsSection ==
  SectionService =>
    LET blocks == page.response.blocks
        sections == page.content_json.sections
        n == RequestedCtaSection(page.content_json)
        ctas == BlocksOfType(blocks, "cta")
    IN /\ H1First(blocks)
       /\ FaqsContiguous(blocks)
       /\ Cardinality(ctas) = (IF n >= 1 THEN 1 ELSE 0)
       /\ \A c \in ctas :
            /\ n <= Len(sections) =>
                 /\ c = 1 + NonEmptyParts(sections, n) + 1
                 /\ \A i \in 1..(c - 1) : i = 1 \/ IsSectionBlock(blocks[i])
            /\ n > Len(sections) => c = Len(blocks)

\* A response whose CTA block is followed by a section heading.
C19_Witness ==
  /\ SectionService
  /\ \E c \in BlocksOfType(page.response.blocks, "cta") :
       \E i \in (c + 1)..Len(page.response.blocks) :
         IsSectionBlock(page.response.blocks[i])

Validated == page.pc = "validated"
ErrorCodes(errors) == {errors[i].code : i \in 1..Len(errors)}

\* C15: _validate_output runs every check even after an earlier one has failed:
\* for every response with no CTA block the violation list holds the CTA
\* block-count violation, whatever else is wrong with the response.
C15_CtaViolationAlwaysListed ==
  (Validated /\ block_count(page.response.blocks, "cta") = 0)
    => "cta" \in ErrorCodes(page.errors)

\* A response with no CTA block that breaks other rules as well, two block
\* counts among them.
C15_Witness ==
  /\ Validated
  /\ block_count(page.response.blocks, "cta") = 0
  /\ {"word_count", "forbidden_region_phrase", "headings", "faqs", "cta"}
       \subseteq ErrorCodes(page.errors)

ConfiguredPhrases ==
  Range(FORBIDDEN_PHRASES) \cup Range(FORBIDDEN_REGION_PHRASES)
    \cup Range(FORBIDDEN_MARKETING_FILLER)
HasPhrase(string) == \E phrase \in ConfiguredPhrases : Contains(lower(string), phrase)

\* The text fields of a block written by the LLM or built around its text.
ContentStrings(block) ==
  IF block.type \in {"heading", "paragraph", "cta"} THEN {block.text.lead}
  ELSE IF block.type = "faq" THEN {block.question.lead, block.answer.lead}
  ELSE {}
\* The contact fields of the NAP block.
NapStrings(block) ==
  IF block.type = "nap" THEN {block.business_name, block.address} ELSE {}

PhraseInContent(response) ==
  \/ HasPhrase(response.title.lead)
  \/ HasPhrase(response.meta_description.lead)
  \/ \E i \in 1..Len(response.blocks) :
       \E string \in ContentStrings(response.blocks[i]) : HasPhrase(string)
PhraseInNap(response) ==
  \E i \in 1..Len(response.blocks) :
    \E string \in NapStrings(response.blocks[i]) : HasPhrase(string)

\* C16: a response with a configured forbidden phrase, in any letter
\* case, in the title, the meta description or any text field of any block, the
\* business name and address of the NAP block included, gets a non-empty
\* violation list.
C16_PhraseAnywhereRejected ==
  (Validated /\ (PhraseInContent(page.response) \/ PhraseInNap(page.response)))
    => page.errors # <<>>

Responded == http.pc = "idle" /\ http.requests > 0
NoSuccessRowWritten == usageLogs = http.rows

\* C17: POST /generate-page answers an unknown or inactive license with 403 and a
\* quota denial with 402, in both cases without an LLM call and without writing a
\* success usage row; a generation failure (malformed LLM response, validation
\* failed after repair) gets one 500 that carries the underlying message.
C17_ErrorOutcomes ==
  Responded =>
    /\ http.license \in {"not_found", "inactive"} =>
         /\ http.status_code = HTTP_FORBIDDEN
         /\ http.llm_calls = 0
         /\ NoSuccessRowWritten
    /\ http.allowed = "no" =>
         /\ http.status_code = HTTP_PAYMENT_REQUIRED
         /\ http.llm_calls = 0
         /\ NoSuccessRowWritten
    /\ http.outcome \in {"malformed", "invalid_after_repair"} =>
         /\ http.status_code = HTTP_ERROR
         /\ http.responses = 1
         /\ http.detail.message = http.outcome
         /\ NoSuccessRowWritten

\* A second request that is denied by the quota after the first one wrote its
\* success row.
C17_Witness ==
  /\ Responded
  /\ http.requests = 2
  /\ http.allowed = "no"
  /\ gate.all_ok
  /\ gate.total_pages > 0

\* The status changes of an item's lifecycle.
LifecycleSteps ==
  {<<"pending", "running">>, <<"running", "completed">>, <<"running", "failed">>,
   <<"running", "pending">>, <<"completed", "imported">>}

\* C18: an item's status changes only along pending -> running -> {completed,
\* failed, pending} and completed -> imported; under any interleaving of workers,
\* acknowledgements and stale reads of the pending list, an item that is
\* completed or imported never becomes pending, running or failed again.
C18_ItemLifecycle ==
  [][\A i \in ItemIds :
       itemStatus'[i] # itemStatus[i] => <<itemStatus[i], itemStatus'[i]>> \in LifecycleSteps]_vars

\* C20: attempts is incremented at the store: every claim that changes the row
\* (pending to running) raises the persisted attempts by exactly one over its
\* persisted value, nothing else changes attempts, and so attempts counts the
\* successful claims of the item and never decreases, also when the claiming
\* worker listed the item earlier and holds a stale attempts value.
C20_AttemptsIncrementedAtStore ==
  [][\A i \in ItemIds :
       /\ (itemStatus[i] = "pending" /\ itemStatus'[i] = "running")
            => itemAttempts'[i] = itemAttempts[i] + 1
       /\ itemAttempts'[i] # itemAttempts[i]
            => (itemStatus[i] = "pending" /\ itemStatus'[i] = "running")
       /\ itemAttempts'[i] >= itemAttempts[i]]_vars

\* C21: a task that has claimed its item reads the parent job, and when the job is
\* canceled or failed its next write marks the item failed and the task returns:
\* it never goes on to the license check, the quota check or the generation, and
\* it stores no result.
C21_CanceledJobFailsItem ==
  [][\A w \in Workers :
       /\ (pc[w] = "get_job" /\ pc'[w] # "get_job"
             /\ jobStatus[JobOf(cur[w])] \in {"canceled", "failed"})
            => pc'[w] = "fail_job_status"
       /\ (pc[w] = "fail_job_status" /\ pc'[w] # "fail_job_status")
            => /\ pc'[w] = "idle"
               /\ itemStatus'[cur[w]] = "failed"
               /\ itemResult' = itemResult]_vars

\* C21 witness: a task found its job canceled after its claim and is about to mark
\* its running item failed.
C21_Witness ==
  \E w \in Workers :
    /\ pc[w] = "fail_job_status"
    /\ itemStatus[cur[w]] = "running"
    /\ jobStatus[JobOf(cur[w])] = "canceled"

\* C22: a task reaches the generation only through its claim, the job check that
\* found the job neither canceled nor failed, the license check and the quota
\* check, in that order; a task whose license is not active or whose quota check
\* denies marks its item failed as its next write, stores no result and goes to
\* the recomputation of the counters without generating.
C22_GateBeforeGeneration ==
  [][\A w \in Workers :
       /\ (pc[w] # "generate" /\ pc'[w] = "generate") => pc[w] = "check_quota"
       /\ (pc[w] # "check_quota" /\ pc'[w] = "check_quota") => pc[w] = "get_license"
       /\ (pc[w] # "get_license" /\ pc'[w] = "get_license")
            => pc[w] = "get_job" /\ jobStatus[JobOf(cur[w])] \notin {"canceled", "failed"}
       /\ (pc[w] # "get_job" /\ pc'[w] = "get_job") => pc[w] = "start"
       /\ (pc[w] = "get_license" /\ pc'[w] # "get_license")
            => pc'[w] \in {"check_quota", "fail_license"}
       /\ (pc[w] = "check_quota" /\ pc'[w] # "check_quota")
            => pc'[w] \in {"generate", "fail_quota"}
       /\ (pc[w] \in {"fail_license", "fail_quota"} /\ pc'[w] # pc[w])
            => /\ pc'[w] = "rc_scan"
               /\ itemStatus'[cur[w]] = "failed"
               /\ itemResult' = itemResult]_vars

\* C22 witness: a task with an active license was denied by the quota check and
\* is about to mark its running item failed.
C22_Witness ==
  \E w \in Workers : pc[w] = "fail_quota" /\ itemStatus[cur[w]] = "running"

\* C23: in every reachable state, also after a write that the store did not
\* execute, an item whose status is completed has a result_json, and a
\* result_json is only ever written by a task whose generation returned a
\* response for that item.
C23_ResultBeforeCompleted ==
  /\ [](\A i \in ItemIds : itemStatus[i] = "completed" => itemResult[i] # NoResult)
  /\ [][\A i \in ItemIds :
          itemResult'[i] # itemResult[i]
            => \E w \in Workers : pc[w] = "save_result" /\ cur[w] = i /\ itemResult'[i] = w]_vars

\* C24: a task that wrote its item's status returns only out of
\* recompute_bulk_job_counters (a task returns without it only when its claim
\* failed and it wrote nothing), and whenever no task is in progress the
\* completed and failed counters of every job equal the counts of its items'
\* statuses.
C24_CountersAlwaysRecomputed ==
  /\ [][\A w \in Workers :
          (pc[w] # "idle" /\ pc'[w] = "idle")
            => \/ pc[w] = "rc_patch"
               \/ (pc[w] = "start" /\ itemStatus' = itemStatus)]_vars
  /\ [](AllReturned =>
          \A j \in JobIds :
            /\ jobCounters[j].completed = ScanCounts(itemStatus, j).completed
            /\ jobCounters[j].failed = ScanCounts(itemStatus, j).failed)

\* An item that is running with a result_json stored.
RunningWithResult(i) == itemStatus[i] = "running" /\ itemResult[i] # NoResult

\* C25: an item that is running with a result_json keeps that result_json, its
\* status changes only to completed, no task starts a generation for it, and it
\* is eventually completed.
C25_RunningResultRecovered ==
  /\ [][\A i \in ItemIds :
          RunningWithResult(i)
            => /\ itemResult'[i] = itemResult[i]
               /\ itemStatus'[i] \in {"running", "completed"}
               /\ \A w \in Workers :
                    (cur[w] = i /\ pc[w] # "generate") => pc'[w] # "generate"]_vars
  /\ \A i \in ItemIds : RunningWithResult(i) ~> itemStatus[i] = "completed"

\* C26: in every page mode a request of generate_page_content returns a response
\* only when the last _validate_output run on it reported no violation; a request
\* whose last run reported violations ends without a response.
C26_AcceptedImpliesValidated ==
  \A g \in Gens :
    /\ (gen[g].outcome = "returned" => gen[g].validated = "clean")
    /\ (gen[g].pc = "done" /\ gen[g].validated = "errors" => gen[g].outcome # "returned")

\* C27: in the page modes that call the LLM, a generation call that fails (non-200
\* status or content that is not JSON) ends the request with an exception, with no
\* repair call and no response.
C27_FailedCallIsHardFailure ==
  \A g \in Gens :
    (gen[g].pc = "done" /\ gen[g].generation = "failed")
      => gen[g].outcome = "raised" /\ gen[g].repairs = 0 /\ gen[g].json_calls = 1

\* C27 as the code has it: a failed generation call of a service+city page ends
\* the request with an exception, with no repair call and no response; a failed
\* generation call of a city hub page is replaced by the fallback blocks and the
\* response is returned, with no further call.
C27_FailedCallRaisesOrFallsBack ==
  \A g \in Gens :
    (gen[g].pc = "done" /\ gen[g].generation = "failed")
      => /\ gen[g].repairs = 0
         /\ gen[g].json_calls = 1
         /\ gen[g].validated = "none"
         /\ gen[g].page_mode \in {"service_city", "city_hub"}
         /\ (gen[g].page_mode = "service_city" => gen[g].outcome = "raised")
         /\ (gen[g].page_mode = "city_hub" => gen[g].outcome = "returned")

\* C27 witness: the generation call of a service+city page failed and the request
\* has ended.
C27_Witness ==
  \E g \in Gens :
    gen[g].pc = "done" /\ gen[g].generation = "failed" /\ gen[g].page_mode = "service_city"

\* The steps at which a task writes the outcome of a failure.
FailurePoints == {"fail_license", "fail_quota", "handle_error"}

\* C28: whatever the kind of the failure (license inactive, quota denied, an
\* exception of the generation), the task resets its item to pending when the
\* attempts value is below the retry limit and marks it failed otherwise: equal
\* attempts give the same status for every kind of failure.
C28_UniformRetry ==
  [][\A w \in Workers :
       (pc[w] \in FailurePoints /\ pc'[w] # pc[w])
         => itemStatus'[cur[w]] = (IF att[w] < RETRY_BELOW THEN "pending" ELSE "failed")]_vars

\* C28 as the code has it: an inactive license and a denied quota check mark the
\* item failed at once, whatever its attempts; an exception raised by the
\* generation, of any kind, resets the item to pending when the attempts value of
\* the listed row is below the retry limit and marks it failed otherwise.
C28_RetryOnlyGenerationErrors ==
  [][\A w \in Workers :
       /\ (pc[w] \in {"fail_license", "fail_quota"} /\ pc'[w] # pc[w])
            => itemStatus'[cur[w]] = "failed"
       /\ (pc[w] = "handle_error" /\ pc'[w] # pc[w])
            => itemStatus'[cur[w]] = (IF att[w] < RETRY_BELOW THEN "pending" ELSE "failed")]_vars

\* C28 witness: a task whose listed row had attempts at the retry limit is in the
\* exception branch of a failed generation.
C28_Witness ==
  \E w \in Workers : pc[w] = "handle_error" /\ att[w] = RETRY_BELOW

\* C29: a task whose try_claim_bulk_item returned false returns at its next step
\* and that step writes nothing: the items (status, attempts, result_json), the
\* jobs and the usage log are as before, and the task never reaches the generation.
C29_LostClaimIsNoOp ==
  [][\A w \in Workers :
       (pc[w] = "not_claimed" /\ pc'[w] # "not_claimed")
         => /\ pc'[w] = "idle"
            /\ itemStatus' = itemStatus
            /\ itemAttempts' = itemAttempts
            /\ itemResult' = itemResult
            /\ jobStatus' = jobStatus
            /\ jobCounters' = jobCounters
            /\ usageLogs' = usageLogs]_vars

\* C29 witness: the claim of a task for a listed item has returned false while the
\* item is running under another task.
C29_Witness ==
  \E w \in Workers :
    /\ pc[w] = "not_claimed"
    /\ itemStatus[cur[w]] = "running"
    /\ \E v \in Workers \ {w} : cur[v] = cur[w] /\ pc[v] \in ActivePcs

\* The tasks of the batch that have not returned.
Unfinished == {t \in Tasks : pool.task[t] \notin {"none", "done"}}

\* C30: in one worker process at most CONCURRENT_WORKERS generations are running
\* at any time, a batch has at most BATCH_LIMIT tasks, and the loop polls a new
\* batch only when every task of the batch before has returned.
C30_BoundedParallelism ==
  /\ Cardinality({t \in Tasks : pool.task[t] = "running"}) <= CONCURRENT_WORKERS
  /\ Cardinality({t \in Tasks : pool.task[t] # "none"}) <= BATCH_LIMIT
  /\ (pool.pc = "poll" => Unfinished = {})

\* C30 witness: a batch of BATCH_LIMIT tasks with CONCURRENT_WORKERS generations
\* running and the other generations waiting for a thread.
C30_Witness ==
  /\ Cardinality({t \in Tasks : pool.task[t] = "running"}) = CONCURRENT_WORKERS
  /\ Cardinality({t \in Tasks : pool.task[t] = "queued"}) = BATCH_LIMIT - CONCURRENT_WORKERS

\* The first CHECKED_PARAGRAPHS paragraph blocks of a response that have a text.
CheckedParagraphs(response) ==
  LET paragraph_blocks == SelectBlocks(response.blocks, "paragraph")
  IN {paragraph_blocks[idx].text :
        idx \in {k \in 1..Len(paragraph_blocks) :
                   k <= CHECKED_PARAGRAPHS /\ paragraph_blocks[k].text # EmptyText}}
\* The service names a trade category and a checked paragraph holds fewer than
\* MIN_TRADE_TERMS terms of that category's vocabulary.
ShortOfTradeTerms ==
  LET trade_vocab == get_trade_vocabulary_for_service(page.data.service)
  IN /\ trade_vocab # <<>>
     /\ \E text \in CheckedParagraphs(page.response) :
          count_trade_terms_in_text(text, trade_vocab) < MIN_TRADE_TERMS

\* C31 as claimed: for a service whose name matches a known trade category,
\* _validate_output reports a violation for every response in which a checked
\* paragraph contains fewer than the minimum number of terms of that category's
\* vocabulary.
C31_TradeVocabularyChecked ==
  (Validated /\ ShortOfTradeTerms) => "trade_vocabulary" \in ErrorCodes(page.errors)

\* C31: the trade-vocabulary check of _validate_output is disabled: for a
\* service whose name matches a known trade category, a response in which a
\* checked paragraph contains fewer than the minimum number of terms of that
\* category's vocabulary gets no trade-vocabulary violation.
C31_TradeVocabularyNotChecked ==
  (Validated /\ ShortOfTradeTerms) => "trade_vocabulary" \notin ErrorCodes(page.errors)

\* A response for the service "Roofing" whose first three paragraphs hold no
\* term of the roofing vocabulary, accepted with an empty violation list.
C31_Witness ==
  /\ Validated
  /\ ShortOfTradeTerms
  /\ \A text \in CheckedParagraphs(page.response) :
       count_trade_terms_in_text(text, get_trade_vocabulary_for_service(page.data.service)) = 0
  /\ Cardinality(CheckedParagraphs(page.response)) >= 1
  /\ Len(SelectBlocks(page.response.blocks, "paragraph")) >= CHECKED_PARAGRAPHS
  /\ page.errors = <<>>

\* The words of the paragraph texts and the FAQ answers of a response.
ParagraphAndAnswerWords(response) ==
  LET paragraph_blocks == SelectBlocks(response.blocks, "paragraph")
      faq_blocks == SelectBlocks(response.blocks, "faq")
  IN SumSeq([i \in 1..Len(paragraph_blocks) |-> WordCount(paragraph_blocks[i].text)])
       + SumSeq([i \in 1..Len(faq_blocks) |-> WordCount(faq_blocks[i].answer)])

\* C32: _validate_output reports a word-count violation for every response
\* whose number of whitespace-separated words over paragraph texts and FAQ
\* answers, and nothing else, is below MIN_WORDS, and for no response whose
\* number is at least MIN_WORDS.
C32_WordCountOverParagraphsAndAnswers ==
  Validated =>
    (("word_count" \in ErrorCodes(page.errors))
       <=> (ParagraphAndAnswerWords(page.response) < MIN_WORDS))

\* Task w holds the claim on row i: it is the only task past a claim of the row
\* and the row is running.  As long as no write was made without a claim, this
\* is the task whose claim changed the row.
HoldsClaim(w, i) ==
  /\ cur[w] = i
  /\ pc[w] \in ActivePcs
  /\ itemStatus[i] = "running"
  /\ ActiveOn(i) = {w}
\* The step is one of task w and changes the status or the result of its row.
WritesRow(w, i) ==
  /\ pc'[w] # pc[w]
  /\ cur[w] = i
  /\ (itemStatus'[i] # itemStatus[i] \/ itemResult'[i] # itemResult[i])
\* The write of the claim itself: the pending row becomes running.
ClaimsRow(w, i) ==
  pc[w] = "start" /\ itemStatus[i] = "pending" /\ itemStatus'[i] = "running"

\* C33: a worker writes an item's status or result only while it holds a
\* successful claim on that item; a worker that merely listed the item, possibly
\* a stale listing of an item that another worker is running or has completed,
\* never overwrites it.
C33_NoWriteWithoutClaim ==
  [][\A w \in Workers : \A i \in ItemIds :
       WritesRow(w, i) => (ClaimsRow(w, i) \/ HoldsClaim(w, i))]_vars

\* C34: with workers that keep polling and calls that all return, every item
\* of a job eventually is completed or failed, and a job that is not canceled
\* eventually has status complete.
C34_Progress ==
  /\ \A i \in ItemIds : <>(itemStatus[i] \in TerminalStatuses)
  /\ \A j \in JobIds : <>(jobStatus[j] \in {"complete", "canceled"})

\* The success rows of a subscription, and those of its current period.
SuccessRows(s) == SumOver(KeysOf(s), [k \in KeysOf(s) |-> usageLogs[k].total])
PeriodRows(s) == SumOver(KeysOf(s), [k \in KeysOf(s) |-> usageLogs[k].period])

\* C35: with several workers processing items of one subscription at the same
\* time, the number of success rows of the subscription never exceeds
\* page_limit and the number within the current period never exceeds
\* monthly_generation_limit.
C35_QuotaNotExceeded ==
  /\ SuccessRows(1) <= subscription.page_limit
  /\ PeriodRows(1) <= subscription.monthly_generation_limit

\* C36: every bulk item that is completed has exactly one
\* bulk_item_generation_success usage row written for it, and no such row
\* exists for an item without a persisted result, also when the log_usage
\* write fails or the item is retried.
C36_UsageMatchesCompletions ==
  \A i \in ItemIds :
    /\ itemStatus[i] = "completed" => usageItems[i] = 1
    /\ itemResult[i] = NoResult => usageItems[i] = 0

\* The items whose status the last acknowledgement call changed from completed
\* to imported.
ChangedByAck ==
  {i \in ItemIds : ackLog.before[i] = "completed" /\ itemStatus[i] = "imported"}

\* C37: the imported_count returned by POST /bulk-jobs/{id}/ack equals the
\* number of items whose status changed from completed to imported in that
\* call: it is 0 for a repeated call and counts no failed, pending, running or
\* unknown item ids.
C37_AckCountExact ==
  Acked => ackLog.imported_count = Cardinality(ChangedByAck)

\* The last results listing was called with a cursor and returned rows.
ListedWithCursor ==
  /\ consumer.pc = "ack"
  /\ ParseCursor(consumer.sent) # NoCursor
  /\ consumer.page # <<>>

\* C38: the results cursor only moves forward: a call of the results listing
\* with cursor c that returns at least one item returns a next_cursor greater
\* than or equal to c, also when the page holds items with idx below c; each
\* page is sorted by idx ascending and has at most limit items.
C38_CursorMovesForward ==
  /\ ListedWithCursor => next_cursor(consumer.page) >= consumer.sent
  /\ consumer.pc = "ack" =>
       /\ Len(consumer.page) <= consumer.limit
       /\ \A k \in 1..(Len(consumer.page) - 1) :
            IdxOf(consumer.page[k]) < IdxOf(consumer.page[k + 1])

\* C39: for any LLM JSON, whatever the number of sections and whatever value
\* structural_variance.cta_after_section has (0, negative values and values
\* above the section count included), the response built by _assemble_response
\* contains exactly one CTA block.
C39_ExactlyOneCta ==
  (page.pc \in {"built", "validated"} /\ page.data.page_mode = "service_city")
    => Cardinality(BlocksOfType(page.response.blocks, "cta")) = 1

====
